---------------------------- MODULE Spec2Model ----------------------------
(***************************************************************************)
(* Volunteer check-in application: the storage layer (the in-memory        *)
(* MemStorage and the Postgres-backed DatabaseStorage) and the HTTP routes  *)
(* that call it.                                                            *)
(*                                                                          *)
(* JavaScript values are tagged records, so that undefined, null, a string, *)
(* a boolean and a Date are five different things, as they are in the code. *)
(***************************************************************************)
EXTENDS Integers, Naturals, Sequences, FiniteSets, TLC

VARIABLES
    impl,        \* which IStorage implementation backs `storage`
    users,       \* users table / MemStorage.users       : id -> row
    events,      \* events table / MemStorage.events     : id -> row
    volunteers,  \* volunteers table / MemStorage.volunteers : id -> row
    shifts,      \* shifts table                         : id -> row
    roles,       \* roles table                          : id -> row
    shiftRoles,  \* shift_roles table                    : id -> row
    pc,          \* the request in progress, statement by statement, or idle
    seq,         \* the id counters (MemStorage.userId/eventId/volunteerId, serial columns)
    now,         \* the wall clock read by `new Date()`
    last,        \* the most recent call: its operation, arguments, result and HTTP status
    variant,     \* which registerRoutes is deployed: with or without authentication
    client,      \* the browser: the page shown, its local state, the handler in progress
    mirror       \* a DatabaseStorage given the same calls as a MemStorage `storage`

vars == <<impl, users, events, volunteers, shifts, roles, shiftRoles, pc, seq, now, last,
          variant, client, mirror>>

shiftVars == <<shifts, roles, shiftRoles, pc>>

----------------------------------------------------------------------------
(* Bounds of the model *)

MaxTime == 1            \* the clock runs 0..MaxTime
MaxNewVolunteers == 1   \* createVolunteer calls after start-up
MaxNewEvents == 1       \* createEvent calls after start-up
MaxShifts == 3          \* shifts created
MaxRoles == 1           \* roles created
MaxShiftRoles == 2      \* shift_roles rows inserted
MaxUsers == 2           \* users created
MaxListed == 2          \* shifts of the event whose list is sorted
MaxDates == 3           \* dates selected in the calendar of CreateEvent
MaxBack == 1            \* presses of the Back button in the per-date wizard
MaxToggles == 2         \* clicks on checkboxes of the assignment editor per visit
MaxInflight == 2        \* requests the server handles at the same time

(* Instants are counted in half days: TicksPerDay instants make one UTC day *)
TicksPerDay == 2

(* Program constants *)

DemoEvents == 3         \* events seeded at start-up
DemoVolunteers == 5     \* volunteer templates seeded per event

----------------------------------------------------------------------------
(* JavaScript / SQL values *)

Undefined == [kind |-> "undefined"]
Null      == [kind |-> "null"]
Bool(b)   == [kind |-> "boolean", b |-> b]
Str(s)    == [kind |-> "string", s |-> s]
Num(n)    == [kind |-> "number", n |-> n]
Date(t)   == [kind |-> "date", ms |-> t]
Arr(items) == [kind |-> "array", items |-> items]

\* `x == null` in JavaScript: null or undefined
IsNullish(x) == x = Null \/ x = Undefined

\* the truthiness test of `if (x)`, `!x`, `filter(v => v.checkedIn)`
\* (a row is an object, and an object is truthy)
Truthy(x) ==
    IF "kind" \notin DOMAIN x THEN TRUE
    ELSE CASE x.kind = "undefined" -> FALSE
           [] x.kind = "null"      -> FALSE
           [] x.kind = "boolean"   -> x.b
           [] x.kind = "string"    -> x.s # ""
           [] x.kind = "number"    -> x.n # 0
           [] OTHER                -> TRUE

\* obj.f : a property the object does not have reads as undefined
Get(obj, f) == IF f \in DOMAIN obj THEN obj[f] ELSE Undefined

\* { ...a, ...b }
Spread(a, b) ==
    [f \in DOMAIN a \cup DOMAIN b |-> IF f \in DOMAIN b THEN b[f] ELSE a[f]]

\* map.set(id, row) / one more row in a table
Put(table, id, row) ==
    [i \in DOMAIN table \cup {id} |-> IF i = id THEN row ELSE table[i]]

----------------------------------------------------------------------------
(* shared/schema.ts *)

\* the columns of the volunteers table
VolunteerColumns ==
    {"id", "name", "email", "phone", "role", "team", "shirtSize",
     "dietaryNeeds", "eventId", "checkedIn", "checkInTime", "checkedInBy"}

\* the value a column takes when an INSERT does not give it
VolunteerDefault ==
    [col \in VolunteerColumns |->
        IF col = "checkedIn" THEN Bool(FALSE) ELSE Null]

EventColumns == {"id", "name", "date", "time", "location"}

----------------------------------------------------------------------------
(* Demo data: MemStorage.initializeDemoData and seedDemoData *)

DemoEventRows ==
    << [name |-> Str("Community Park Cleanup"), date |-> Str("May 15, 2023"),
        time |-> Str("9:00 AM - 12:00 PM"), location |-> Str("Riverside Park")],
       [name |-> Str("Food Drive"), date |-> Str("May 20, 2023"),
        time |-> Str("10:00 AM - 2:00 PM"), location |-> Str("Community Center")],
       [name |-> Str("Charity Run"), date |-> Str("June 5, 2023"),
        time |-> Str("7:00 AM - 10:00 AM"), location |-> Str("Downtown Plaza")] >>

DemoProfiles ==
    << [name |-> Str("Sarah Johnson"), email |-> Str("sarah.j@example.com"),
        phone |-> Str("(555) 123-4567"), role |-> Str("Clean-up Crew"),
        team |-> Str("North Area"), shirtSize |-> Str("Medium"),
        dietaryNeeds |-> Str("Vegetarian")],
       [name |-> Str("Michael Chen"), email |-> Str("michael.c@example.com"),
        phone |-> Str("(555) 234-5678"), role |-> Str("Team Lead"),
        team |-> Str("South Area"), shirtSize |-> Str("Large"),
        dietaryNeeds |-> Str("None")],
       [name |-> Str("Jessica Smith"), email |-> Str("jessica.s@example.com"),
        phone |-> Str("(555) 345-6789"), role |-> Str("Registration"),
        team |-> Str("Central Area"), shirtSize |-> Str("Small"),
        dietaryNeeds |-> Str("Gluten-free")],
       [name |-> Str("David Rodriguez"), email |-> Str("david.r@example.com"),
        phone |-> Str("(555) 456-7890"), role |-> Str("Food Distribution"),
        team |-> Str("Kitchen"), shirtSize |-> Str("XL"),
        dietaryNeeds |-> Str("None")],
       [name |-> Str("Emily Wilson"), email |-> Str("emily.w@example.com"),
        phone |-> Str("(555) 567-8901"), role |-> Str("First Aid"),
        team |-> Str("Medical"), shirtSize |-> Str("Medium"),
        dietaryNeeds |-> Str("Vegan")] >>

\* the check-in fields of the k-th template of MemStorage.initializeDemoData,
\* built at time t: the 2nd and the 4th are already checked in
MemTemplate(k, t) ==
    Spread(DemoProfiles[k],
           IF k \in {2, 4}
           THEN [checkedIn |-> Bool(TRUE), checkInTime |-> Date(t),
                 checkedInBy |-> Str("Volunteer Admin")]
           ELSE [checkedIn |-> Bool(FALSE), checkInTime |-> Undefined,
                 checkedInBy |-> Undefined])

\* the k-th template of seedDemoData: nobody is checked in
SeedTemplate(k) ==
    Spread(DemoProfiles[k],
           [checkedIn |-> Bool(FALSE), checkInTime |-> Null, checkedInBy |-> Null])

----------------------------------------------------------------------------
(* The storage layer.  Every operation is an operator from the table (and    *)
(* its arguments) to the new table and the value the call resolves to.       *)

\* MemStorage.createEvent / createVolunteer / createUser: { ...insert, id }
MemCreate(table, id, insert) ==
    LET row == Spread(insert, [id |-> Num(id)])
    IN  [table |-> Put(table, id, row), result |-> row]

\* db.insert(t).values(insert).returning(): a column that is not given (or is
\* undefined) takes its default
DbInsert(table, id, insert, columns, defaults) ==
    LET row == [c \in columns |->
                  IF c = "id" THEN Num(id)
                  ELSE IF Get(insert, c) # Undefined THEN insert[c]
                  ELSE defaults[c]]
    IN  [table |-> Put(table, id, row), result |-> row]

\* db.update(t).set(updates).where(eq(t.id, id)).returning(), and `row || undefined`
DbUpdate(table, id, updates) ==
    IF id \notin DOMAIN table
    THEN [table |-> table, result |-> Undefined]
    ELSE LET row == [c \in DOMAIN table[id] |->
                       IF Get(updates, c) # Undefined THEN updates[c]
                       ELSE table[id][c]]
         IN  [table |-> Put(table, id, row), result |-> row]

EventDefault == [col \in EventColumns |-> Null]

createEvent(st, table, id, insert) ==
    IF st = "mem" THEN MemCreate(table, id, insert)
    ELSE DbInsert(table, id, insert, EventColumns, EventDefault)

createVolunteer(st, table, id, insert) ==
    IF st = "mem" THEN MemCreate(table, id, insert)
    ELSE DbInsert(table, id, insert, VolunteerColumns, VolunteerDefault)

MemUpdateVolunteer(table, id, updates) ==
    IF id \notin DOMAIN table
    THEN [table |-> table, result |-> Undefined]
    ELSE LET updatedVolunteer == Spread(table[id], updates)
         IN  [table |-> Put(table, id, updatedVolunteer), result |-> updatedVolunteer]

updateVolunteer(st, table, id, updates) ==
    IF st = "mem" THEN MemUpdateVolunteer(table, id, updates)
    ELSE DbUpdate(table, id, updates)

MemCheckInVolunteer(table, id, checkedInBy, t) ==
    IF id \notin DOMAIN table
    THEN [table |-> table, result |-> Undefined]
    ELSE LET updatedVolunteer ==
                 Spread(table[id], [checkedIn |-> Bool(TRUE), checkInTime |-> Date(t),
                                    checkedInBy |-> checkedInBy])
         IN  [table |-> Put(table, id, updatedVolunteer), result |-> updatedVolunteer]

DbCheckInVolunteer(table, id, checkedInBy, t) ==
    DbUpdate(table, id, [checkedIn |-> Bool(TRUE), checkInTime |-> Date(t),
                         checkedInBy |-> checkedInBy])

\* checkInVolunteer that forgets the timestamp
checkInVolunteer_NoTime(st, table, id, checkedInBy, t) ==
    updateVolunteer(st, table, id, [checkedIn |-> Bool(TRUE), checkedInBy |-> checkedInBy])

\* checkInVolunteer without the `if (!volunteer) return undefined` guard: an upsert
checkInVolunteer_Upsert(st, table, id, checkedInBy, t) ==
    LET row == Spread(IF id \in DOMAIN table THEN table[id] ELSE [id |-> Num(id)],
                      [checkedIn |-> Bool(TRUE), checkInTime |-> Date(t),
                       checkedInBy |-> checkedInBy])
    IN  [table |-> Put(table, id, row), result |-> row]

\* checkInVolunteer that checks a checked-in volunteer out again
checkInVolunteer_Toggle(st, table, id, checkedInBy, t) ==
    updateVolunteer(st, table, id,
                    IF id \in DOMAIN table /\ Truthy(Get(table[id], "checkedIn"))
                    THEN [checkedIn |-> Bool(FALSE), checkInTime |-> Null,
                          checkedInBy |-> Null]
                    ELSE [checkedIn |-> Bool(TRUE), checkInTime |-> Date(t),
                          checkedInBy |-> checkedInBy])

\* checkInVolunteer(id, checkedInBy), with `new Date()` reading t
checkInVolunteer(st, table, id, checkedInBy, t) ==
    IF st = "mem" THEN MemCheckInVolunteer(table, id, checkedInBy, t)
    ELSE DbCheckInVolunteer(table, id, checkedInBy, t)

\* getVolunteers(eventId): the rows of the event, here in id order
RECURSIVE RowsInOrder(_, _)
RowsInOrder(table, ids) ==
    IF ids = {} THEN << >>
    ELSE LET i == CHOOSE x \in ids : \A y \in ids : x <= y
         IN  <<table[i]>> \o RowsInOrder(table, ids \ {i})

\* getVolunteers that forgets the event filter
getVolunteers_All(table, eventId) == RowsInOrder(table, DOMAIN table)

getVolunteers(table, eventId) ==
    LET IsOfEvent(volunteer) == Get(volunteer, "eventId") = Num(eventId)
    IN  SelectSeq(RowsInOrder(table, DOMAIN table), IsOfEvent)

\* getEvents()
getEvents(table) == RowsInOrder(table, DOMAIN table)

\* getEventStats that counts `checkedIn === false` as pending
getEventStats_StrictPending(table, eventId) ==
    LET volunteersForEvent == getVolunteers(table, eventId)
        IsCheckedIn(v) == Truthy(Get(v, "checkedIn"))
        IsPending(v) == Get(v, "checkedIn") = Bool(FALSE)
    IN  [total |-> Len(volunteersForEvent),
         checkedIn |-> Len(SelectSeq(volunteersForEvent, IsCheckedIn)),
         pending |-> Len(SelectSeq(volunteersForEvent, IsPending))]

\* getEventStats(eventId)
getEventStats(table, eventId) ==
    LET volunteersForEvent == getVolunteers(table, eventId)
        IsCheckedIn(v) == Truthy(Get(v, "checkedIn"))
        total == Len(volunteersForEvent)
        checkedIn == Len(SelectSeq(volunteersForEvent, IsCheckedIn))
        pending == total - checkedIn
    IN  [total |-> total, checkedIn |-> checkedIn, pending |-> pending]

----------------------------------------------------------------------------
(* Dates.  An instant is a number of ticks since the epoch, UTC.             *)

\* the JSON form of a Date, "2024-05-01T12:00:00.000Z"
IsoString(t) == [kind |-> "string", s |-> "iso-8601", t |-> t]

\* "2024-05-01"
DateString(day) == [kind |-> "string", s |-> "yyyy-mm-dd", day |-> day]

InvalidDate == [kind |-> "date", nan |-> TRUE]

\* new Date(x): a date-only string is midnight UTC of that day
NewDate(x) ==
    IF x.kind = "date" THEN x
    ELSE IF x.kind = "string" /\ "t" \in DOMAIN x THEN Date(x.t)
    ELSE IF x.kind = "string" /\ "day" \in DOMAIN x THEN Date(x.day * TicksPerDay)
    ELSE InvalidDate

\* isNaN(d.getTime())
IsInvalidDate(d) == "nan" \in DOMAIN d

\* d.toISOString().split('T')[0]
ToISODate(d) == DateString(d.ms \div TicksPerDay)

\* a `date` column keeps the calendar day of what is written to it
ToDateColumn(x) == ToISODate(NewDate(x))

----------------------------------------------------------------------------
(* Text.  A string of the client is a TLA+ string; its characters are read   *)
(* with SubSeq.                                                              *)

\* text.includes(part)
Includes(text, part) ==
    \E i \in 1 .. Len(text) - Len(part) + 1 : SubSeq(text, i, i + Len(part) - 1) = part

\* text.split(separator)
RECURSIVE Split(_, _)
Split(text, separator) ==
    IF ~Includes(text, separator) THEN <<text>>
    ELSE LET at == CHOOSE i \in 1 .. Len(text) :
                       /\ SubSeq(text, i, i + Len(separator) - 1) = separator
                       /\ \A j \in 1 .. i - 1 :
                             SubSeq(text, j, j + Len(separator) - 1) # separator
         IN  <<SubSeq(text, 1, at - 1)>> \o
             Split(SubSeq(text, at + Len(separator), Len(text)), separator)

\* texts.join(separator)
RECURSIVE Join(_, _)
Join(texts, separator) ==
    IF texts = << >> THEN ""
    ELSE IF Len(texts) = 1 THEN texts[1]
    ELSE texts[1] \o separator \o Join(Tail(texts), separator)

\* text.trim(), for the blanks that occur here
RECURSIVE Trim(_)
Trim(text) ==
    IF text = "" THEN ""
    ELSE IF SubSeq(text, 1, 1) = " " THEN Trim(SubSeq(text, 2, Len(text)))
    ELSE IF SubSeq(text, Len(text), Len(text)) = " "
         THEN Trim(SubSeq(text, 1, Len(text) - 1))
    ELSE text

Digits == "0123456789"

IsNumber(text) ==
    /\ text # ""
    /\ \A i \in 1 .. Len(text) : Includes(Digits, SubSeq(text, i, i))

\* a natural number in decimal
RECURSIVE ToText(_)
ToText(n) ==
    IF n < 10 THEN SubSeq(Digits, n + 1, n + 1)
    ELSE ToText(n \div 10) \o SubSeq(Digits, (n % 10) + 1, (n % 10) + 1)

RECURSIVE ToNumber(_)
ToNumber(text) ==
    IF text = "" THEN 0
    ELSE 10 * ToNumber(SubSeq(text, 1, Len(text) - 1)) +
         (CHOOSE i \in 1 .. 10 :
              SubSeq(Digits, i, i) = SubSeq(text, Len(text), Len(text))) - 1

\* two digits: MM and dd of date-fns
Pad2(n) == IF n < 10 THEN "0" \o ToText(n) ELSE ToText(n)

----------------------------------------------------------------------------
(* The calendar.  Days are counted from 1 January 1970; a time zone is the   *)
(* number of ticks local time is ahead of UTC.                               *)

\* MMMM of date-fns
MonthNames ==
    << "January", "February", "March", "April", "May", "June", "July", "August",
       "September", "October", "November", "December" >>

IsLeap(y) == (y % 4 = 0 /\ y % 100 # 0) \/ y % 400 = 0

DaysBeforeMonth(y, m) ==
    << 0, 31, 59, 90, 120, 151, 181, 212, 243, 273, 304, 334 >>[m] +
    IF IsLeap(y) /\ m > 2 THEN 1 ELSE 0

DaysBeforeYear(y) ==
    LET Leaps(upTo) == (upTo \div 4) - (upTo \div 100) + (upTo \div 400)
    IN  365 * (y - 1970) + Leaps(y - 1) - Leaps(1969)

DayNumber(y, m, d) == DaysBeforeYear(y) + DaysBeforeMonth(y, m) + d - 1

\* year, month and day of the month of a day
Calendar(day) ==
    LET y == CHOOSE yy \in 1970 .. 2100 :
                 DaysBeforeYear(yy) <= day /\ day < DaysBeforeYear(yy + 1)
        m == CHOOSE mm \in 1 .. 12 :
                 /\ DayNumber(y, mm, 1) <= day
                 /\ mm < 12 => day < DayNumber(y, mm + 1, 1)
    IN  [year |-> y, month |-> m, date |-> day - DayNumber(y, m, 1) + 1]

\* the calendar day a Date falls on in the zone
LocalDay(d, zone) == (d.ms + zone) \div TicksPerDay

\* the Date of 00:00 local time on a day
LocalMidnight(day, zone) == Date(day * TicksPerDay - zone)

\* format(d, "MMMM d, yyyy")
FormatLong(d, zone) ==
    LET c == Calendar(LocalDay(d, zone))
    IN  MonthNames[c.month] \o " " \o ToText(c.date) \o ", " \o ToText(c.year)

\* format(d, "yyyy-MM-dd")
FormatIso(d, zone) ==
    LET c == Calendar(LocalDay(d, zone))
    IN  ToText(c.year) \o "-" \o Pad2(c.month) \o "-" \o Pad2(c.date)

\* new Date(text) for the texts that occur here: "yyyy-MM-dd" and "yyyy" are
\* UTC; "Month d, yyyy" is local time; "Month d" has no year, which an
\* engine either rejects (legacyYear = 0) or fills in with a year of its own
\* (V8: 2001); anything else is an Invalid Date
ParseDate(text, zone, legacyYear) ==
    LET iso == Split(text, "-")
        words == Split(Trim(text), " ")
        IsMonth(w) == \E m \in 1 .. 12 : MonthNames[m] = w
        MonthOf(w) == CHOOSE m \in 1 .. 12 : MonthNames[m] = w
        DayWord(w) == IF w # "" /\ SubSeq(w, Len(w), Len(w)) = ","
                      THEN SubSeq(w, 1, Len(w) - 1) ELSE w
    IN  IF Len(iso) = 3 /\ \A i \in 1 .. 3 : IsNumber(iso[i])
        THEN Date(DayNumber(ToNumber(iso[1]), ToNumber(iso[2]), ToNumber(iso[3]))
                  * TicksPerDay)
        ELSE IF IsNumber(text) /\ Len(text) = 4
        THEN Date(DayNumber(ToNumber(text), 1, 1) * TicksPerDay)
        ELSE IF /\ Len(words) = 3 /\ IsMonth(words[1])
                /\ IsNumber(DayWord(words[2])) /\ IsNumber(words[3])
        THEN LocalMidnight(DayNumber(ToNumber(words[3]), MonthOf(words[1]),
                                     ToNumber(DayWord(words[2]))), zone)
        ELSE IF /\ Len(words) = 2 /\ IsMonth(words[1]) /\ IsNumber(words[2])
                /\ legacyYear # 0
        THEN LocalMidnight(DayNumber(legacyYear, MonthOf(words[1]), ToNumber(words[2])),
                           zone)
        ELSE InvalidDate

----------------------------------------------------------------------------
(* Shifts: schema (part_008) and DatabaseStorage *)

ShiftColumns ==
    {"id", "eventId", "shiftDate", "startTime", "endTime", "title",
     "description", "maxVolunteers"}

ShiftDefault ==
    [col \in ShiftColumns |-> IF col = "maxVolunteers" THEN Num(0) ELSE Null]

\* the values as the shifts table takes them
ShiftValues(data) ==
    [c \in DOMAIN data |-> IF c = "shiftDate" THEN ToDateColumn(data[c]) ELSE data[c]]

\* one row less in a table
Remove(table, id) == [i \in DOMAIN table \ {id} |-> table[i]]

createShift(table, id, insertShift) ==
    DbInsert(table, id, ShiftValues(insertShift), ShiftColumns, ShiftDefault)

\* updateShift that inserts the row when the id is missing
updateShift_Upsert(table, id, updates) ==
    IF id \in DOMAIN table THEN DbUpdate(table, id, ShiftValues(updates))
    ELSE DbInsert(table, id, ShiftValues(updates), ShiftColumns, ShiftDefault)

updateShift(table, id, updates) == DbUpdate(table, id, ShiftValues(updates))

\* deleteShift that reports success whatever it found
deleteShift_AlwaysTrue(table, id) ==
    [table |-> Remove(table, id), result |-> Bool(TRUE)]

deleteShift(table, id) ==
    [table |-> Remove(table, id), result |-> Bool(id \in DOMAIN table)]

getShift(table, id) == IF id \in DOMAIN table THEN table[id] ELSE Undefined

\* getShiftsByDate that compares the instants instead of the days
getShiftsByDate_ExactInstant(table, eventId, shiftDate) ==
    LET IsOfEvent(shift) == shift.eventId = Num(eventId)
        allShifts == SelectSeq(RowsInOrder(table, DOMAIN table), IsOfEvent)
        SameInstant(shift) == NewDate(shift.shiftDate) = shiftDate
    IN  SelectSeq(allShifts, SameInstant)

getShiftsByDate(table, eventId, shiftDate) ==
    LET formattedDate == ToISODate(shiftDate)
        IsOfEvent(shift) == shift.eventId = Num(eventId)
        allShifts == SelectSeq(RowsInOrder(table, DOMAIN table), IsOfEvent)
        SameDay(shift) == ToISODate(NewDate(shift.shiftDate)) = formattedDate
    IN  SelectSeq(allShifts, SameDay)

\* insertShiftSchema.safeParse(body).success, or with .partial()
IsA(body, field, kind) == Get(body, field).kind = kind
IsOptional(body, field, kind) == Get(body, field).kind \in {kind, "null", "undefined"}

ShiftBodyValid(body, partial) ==
    /\ IF partial THEN IsOptional(body, "eventId", "number")   ELSE IsA(body, "eventId", "number")
    /\ IF partial THEN IsOptional(body, "shiftDate", "string") ELSE IsA(body, "shiftDate", "string")
    /\ IF partial THEN IsOptional(body, "startTime", "string") ELSE IsA(body, "startTime", "string")
    /\ IF partial THEN IsOptional(body, "endTime", "string")   ELSE IsA(body, "endTime", "string")
    /\ IF partial THEN IsOptional(body, "title", "string")     ELSE IsA(body, "title", "string")
    /\ IsOptional(body, "description", "string")
    /\ IsOptional(body, "maxVolunteers", "number")

\* zod strips the keys the schema does not know
ShiftData(body) == [c \in (DOMAIN body \cap ShiftColumns) \ {"id"} |-> body[c]]

----------------------------------------------------------------------------
(* Start-up *)

EmptyTable == << >>

\* events.forEach(event => this.createEvent(event)) /
\* Promise.all(events.map(event => storage.createEvent(event)))
RECURSIVE SeedEvents(_, _, _)
SeedEvents(st, table, n) ==
    IF n > DemoEvents THEN table
    ELSE SeedEvents(st, createEvent(st, table, n, DemoEventRows[n]).table, n + 1)

\* the n-th createVolunteer of the seeding loops: template k of event e
RECURSIVE SeedVolunteers(_, _, _, _)
SeedVolunteers(st, table, n, t) ==
    IF n > DemoEvents * DemoVolunteers THEN table
    ELSE LET e == ((n - 1) \div DemoVolunteers) + 1
             k == ((n - 1) % DemoVolunteers) + 1
             template == IF st = "mem" THEN MemTemplate(k, t) ELSE SeedTemplate(k)
             insert == Spread(template, [eventId |-> Num(e)])
         IN  SeedVolunteers(st, createVolunteer(st, table, n, insert).table, n + 1, t)

Idle == [at |-> "idle", id |-> 0, viaRoute |-> FALSE]

NoCall == [op |-> "none", id |-> 0, arg |-> Undefined, start |-> 0,
           result |-> Undefined, status |-> 0]

\* no page of the event-creation flow is open
Closed == [page |-> "Home"]

\* `new MemStorage()` (storage.ts) or `new DatabaseStorage()` followed by
\* initializeStorage() on an empty database (part_000)
Started ==
    /\ impl \in {"mem", "db"}
    /\ users = EmptyTable
    /\ events = SeedEvents(impl, EmptyTable, 1)
    /\ volunteers = SeedVolunteers(impl, EmptyTable, 1, 0)
    /\ shifts = EmptyTable
    /\ roles = EmptyTable
    /\ shiftRoles = EmptyTable
    /\ pc = Idle
    /\ seq = [users |-> 1, events |-> DemoEvents + 1,
              volunteers |-> DemoEvents * DemoVolunteers + 1,
              shifts |-> 1, roles |-> 1, shiftRoles |-> 1]
    /\ now = 0
    /\ last = NoCall
    /\ mirror = [events |-> SeedEvents("db", EmptyTable, 1),
                 volunteers |-> SeedVolunteers("db", EmptyTable, 1, 0),
                 result |-> Undefined]

\* the server started and no page of the event-creation flow open
Boot == Started /\ client = Closed

\* the server of routes.ts, whose routes take no session
Init == Boot /\ variant = "unauthenticated"

\* either deployment: routes.ts, or the routes behind isAuthenticated
InitAnyVariant == Boot /\ variant \in {"unauthenticated", "authenticated"}

----------------------------------------------------------------------------
(* Inputs *)

\* a seeded volunteer (checked in already in MemStorage) and the first id a
\* createVolunteer call hands out (absent until then)
VolunteerIds == {2, DemoEvents * DemoVolunteers + 1}

EventIds == 1 .. (DemoEvents + MaxNewEvents + 1)

CheckerNames == {Str("Volunteer Admin"), Str("Alice")}

NewVolunteer ==
    [name |-> Str("Pat Doe"), email |-> Str("pat@example.com"), eventId |-> Num(1)]

VolunteerInserts ==
    { NewVolunteer,
      Spread(NewVolunteer, [checkedIn |-> Bool(TRUE), checkInTime |-> Date(0),
                            checkedInBy |-> Str("Volunteer Admin")]) }

VolunteerUpdates ==
    { [team |-> Str("West Area"), checkedIn |-> Bool(FALSE)] }

EventInserts ==
    { [name |-> Str("Gala"), date |-> Str("July 1, 2023"),
       time |-> Str("6:00 PM - 9:00 PM"), location |-> Str("Town Hall")] }

\* request bodies of POST /api/volunteers/:id/check-in
CheckInBodies ==
    { [checkedInBy |-> by] : by \in CheckerNames } \cup
    { [checkedInBy |-> Num(7)] }

----------------------------------------------------------------------------
(* Actions: one per storage call or HTTP request *)

Tick ==
    /\ now < MaxTime
    /\ now' = now + 1
    /\ UNCHANGED <<mirror, variant, client, impl, users, events, volunteers, shiftVars, seq, last>>

CreateEventCall(insert) ==
    /\ seq.events <= DemoEvents + MaxNewEvents
    /\ LET r == createEvent(impl, events, seq.events, insert)
       IN  /\ events' = r.table
           /\ last' = [op |-> "createEvent", id |-> seq.events, arg |-> insert,
                       start |-> now, result |-> r.result, status |-> 0]
    /\ seq' = [seq EXCEPT !.events = @ + 1]
    /\ UNCHANGED <<mirror, variant, client, impl, users, volunteers, shiftVars, now>>

CreateVolunteerCall(insert) ==
    /\ seq.volunteers <= DemoEvents * DemoVolunteers + MaxNewVolunteers
    /\ LET r == createVolunteer(impl, volunteers, seq.volunteers, insert)
       IN  /\ volunteers' = r.table
           /\ last' = [op |-> "createVolunteer", id |-> seq.volunteers, arg |-> insert,
                       start |-> now, result |-> r.result, status |-> 0]
    /\ seq' = [seq EXCEPT !.volunteers = @ + 1]
    /\ UNCHANGED <<mirror, variant, client, impl, users, events, shiftVars, now>>

UpdateVolunteerCall(id, updates) ==
    /\ LET r == updateVolunteer(impl, volunteers, id, updates)
       IN  /\ volunteers' = r.table
           /\ last' = [op |-> "updateVolunteer", id |-> id, arg |-> updates,
                       start |-> now, result |-> r.result, status |-> 0]
    /\ UNCHANGED <<mirror, variant, client, impl, users, events, shiftVars, seq, now>>

\* z.object({ checkedInBy: z.string() }).safeParse(body).success
CheckInBodyValid(body) == Get(body, "checkedInBy").kind = "string"

\* POST /api/volunteers/:id/check-in
PostCheckIn(id, body) ==
    /\ variant = "unauthenticated"
    /\ IF ~CheckInBodyValid(body)
       THEN /\ last' = [op |-> "POST check-in", id |-> id, arg |-> body,
                        start |-> now, result |-> Undefined, status |-> 400]
            /\ UNCHANGED volunteers
       ELSE LET r == checkInVolunteer(impl, volunteers, id, body.checkedInBy, now)
            IN  /\ volunteers' = r.table
                /\ last' = [op |-> "POST check-in", id |-> id, arg |-> body,
                            start |-> now, result |-> r.result,
                            status |-> IF ~Truthy(r.result) THEN 404 ELSE 200]
    /\ UNCHANGED <<mirror, variant, client, impl, users, events, shiftVars, seq, now>>

\* GET /api/events: every event with the number of its volunteers
GetEvents ==
    /\ pc = Idle
    /\ LET evs == getEvents(events)
           eventsWithCounts ==
               [i \in 1 .. Len(evs) |->
                   Spread(evs[i],
                          [volunteerCount |->
                              Num(Len(getVolunteers(volunteers, evs[i].id.n)))])]
       IN  last' = [op |-> "GET events", id |-> 0, arg |-> Undefined, start |-> now,
                    result |-> Arr(eventsWithCounts), status |-> 200]
    /\ UNCHANGED <<mirror, variant, client, impl, users, events, volunteers, shiftVars, seq, now>>

NextVolunteers ==
    \/ Tick
    \/ GetEvents
    \/ \E insert \in EventInserts : CreateEventCall(insert)
    \/ \E insert \in VolunteerInserts : CreateVolunteerCall(insert)
    \/ \E id \in VolunteerIds, updates \in VolunteerUpdates : UpdateVolunteerCall(id, updates)
    \/ \E id \in VolunteerIds, body \in CheckInBodies : PostCheckIn(id, body)

SpecVolunteers == Init /\ [][NextVolunteers]_vars

----------------------------------------------------------------------------
(* Shift requests (routes.ts); `storage` is the DatabaseStorage here *)

ShiftIds == {1, 2}

NewShift(e, t) ==
    [eventId |-> Num(e), shiftDate |-> IsoString(t), startTime |-> Str("9:00 AM"),
     endTime |-> Str("12:00 PM"), title |-> Str("Morning"), description |-> Str("")]

\* event 1 at noon of day 0 and at midnight of day 1, event 2 at noon of day 0,
\* and a body without the required fields
ShiftBodies ==
    { NewShift(1, 1), NewShift(1, TicksPerDay), NewShift(2, 1), [eventId |-> Num(1)] }

ShiftUpdates ==
    { [shiftDate |-> IsoString(TicksPerDay + 1)],
      [title |-> Str("Late"), maxVolunteers |-> Num(5)],
      [title |-> Num(1)] }

\* the :date path parameter
DateParams == { DateString(0), IsoString(1), DateString(1), Str("tomorrow") }

\* POST /api/shifts
PostShifts(body) ==
    /\ impl = "db" /\ pc = Idle
    /\ IF ~ShiftBodyValid(body, FALSE)
       THEN /\ last' = [op |-> "POST shifts", id |-> 0, arg |-> body, start |-> now,
                        result |-> Undefined, status |-> 400]
            /\ UNCHANGED <<shifts, seq>>
       ELSE /\ seq.shifts <= MaxShifts
            /\ LET r == createShift(shifts, seq.shifts, ShiftData(body))
               IN  /\ shifts' = r.table
                   /\ last' = [op |-> "POST shifts", id |-> seq.shifts, arg |-> body,
                               start |-> now, result |-> r.result, status |-> 201]
            /\ seq' = [seq EXCEPT !.shifts = @ + 1]
    /\ UNCHANGED <<mirror, variant, client, impl, users, events, volunteers, roles, shiftRoles, pc, now>>

\* PUT /api/shifts/:id
PutShift(id, body) ==
    /\ impl = "db" /\ pc = Idle
    /\ IF ~ShiftBodyValid(body, TRUE)
       THEN /\ last' = [op |-> "PUT shift", id |-> id, arg |-> body, start |-> now,
                        result |-> Undefined, status |-> 400]
            /\ UNCHANGED shifts
       ELSE LET r == updateShift(shifts, id, ShiftData(body))
            IN  /\ shifts' = r.table
                /\ last' = [op |-> "PUT shift", id |-> id, arg |-> body, start |-> now,
                            result |-> r.result,
                            status |-> IF ~Truthy(r.result) THEN 404 ELSE 200]
    /\ UNCHANGED <<mirror, variant, client, impl, users, events, volunteers, roles, shiftRoles, pc, seq, now>>

\* DELETE /api/shifts/:id that takes the assignments of the shift with it
DeleteShift_Cascade(id) ==
    /\ impl = "db" /\ pc = Idle
    /\ LET r == deleteShift(shifts, id)
       IN  /\ shifts' = r.table
           /\ last' = [op |-> "DELETE shift", id |-> id, arg |-> Undefined, start |-> now,
                       result |-> r.result,
                       status |-> IF ~Truthy(r.result) THEN 404 ELSE 204]
    /\ shiftRoles' = [i \in {j \in DOMAIN shiftRoles : shiftRoles[j].shiftId # Num(id)}
                        |-> shiftRoles[i]]
    /\ UNCHANGED <<mirror, variant, client, impl, users, events, volunteers, roles, pc, seq, now>>

\* DELETE /api/shifts/:id
DeleteShift(id) ==
    /\ impl = "db" /\ pc = Idle
    /\ LET r == deleteShift(shifts, id)
       IN  /\ shifts' = r.table
           /\ last' = [op |-> "DELETE shift", id |-> id, arg |-> Undefined, start |-> now,
                       result |-> r.result,
                       status |-> IF ~Truthy(r.result) THEN 404 ELSE 204]
    /\ UNCHANGED <<mirror, variant, client, impl, users, events, volunteers, roles, shiftRoles, pc, seq, now>>

\* GET /api/events/:eventId/shifts/date/:date
GetShiftsByDate(eventId, dateStr) ==
    /\ impl = "db" /\ pc = Idle
    /\ LET shiftDate == NewDate(dateStr)
       IN  last' = IF IsInvalidDate(shiftDate)
                   THEN [op |-> "GET shifts by date", id |-> eventId, arg |-> dateStr,
                         start |-> now, result |-> Undefined, status |-> 400]
                   ELSE [op |-> "GET shifts by date", id |-> eventId, arg |-> dateStr,
                         start |-> now,
                         result |-> getShiftsByDate(shifts, eventId, shiftDate),
                         status |-> 200]
    /\ UNCHANGED <<mirror, variant, client, impl, users, events, volunteers, shiftVars, seq, now>>

NextShifts ==
    \/ \E id \in VolunteerIds, updates \in VolunteerUpdates : UpdateVolunteerCall(id, updates)
    \/ \E body \in ShiftBodies : PostShifts(body)
    \/ \E id \in ShiftIds, body \in ShiftUpdates : PutShift(id, body)
    \/ \E e \in {1, 2}, dateStr \in DateParams : GetShiftsByDate(e, dateStr)

SpecShifts == Init /\ [][NextShifts]_vars

----------------------------------------------------------------------------
(* Roles and shift-role assignments.  The schema is part_008; the storage    *)
(* methods are those the routes call, as the specification describes them.   *)

RoleColumns == {"id", "eventId", "name", "description"}
ShiftRoleColumns == {"id", "shiftId", "roleId"}

NullDefault == [col \in RoleColumns \cup ShiftRoleColumns |-> Null]

createRole(table, id, insertRole) ==
    DbInsert(table, id, insertRole, RoleColumns, NullDefault)

getRole(table, id) == IF id \in DOMAIN table THEN table[id] ELSE Undefined

\* the shift_roles rows of a (shiftId, roleId) pair
RowsOfPair(table, shiftId, roleId) ==
    {i \in DOMAIN table : table[i].shiftId = shiftId /\ table[i].roleId = roleId}

\* assignRoleToShift without the lookup: always inserts
assignRoleToShift_AlwaysInsert(table, id, data) ==
    DbInsert(table, id, data, ShiftRoleColumns, NullDefault)

\* assignRoleToShift({shiftId, roleId}): the existing row of the pair if there
\* is one, a new row otherwise
assignRoleToShift(table, id, data) ==
    LET existing == RowsOfPair(table, data.shiftId, data.roleId)
    IN  IF existing # {}
        THEN [table |-> table,
              result |-> table[CHOOSE i \in existing : \A j \in existing : i <= j]]
        ELSE DbInsert(table, id, data, ShiftRoleColumns, NullDefault)

\* removeRoleFromShift(shiftId, roleId)
removeRoleFromShift(table, shiftId, roleId) ==
    LET gone == RowsOfPair(table, Num(shiftId), Num(roleId))
    IN  [table |-> [i \in DOMAIN table \ gone |-> table[i]],
         result |-> Bool(gone # {})]

\* getShiftRoles(shiftId): the rows of the shift, each with its role joined in
\* (the client reads `sr.role.id`), a row whose role is gone left out
getShiftRoles(table, roleTable, shiftId) ==
    LET OfShift(row) == row.shiftId = Num(shiftId) /\ row.roleId.n \in DOMAIN roleTable
        rows == SelectSeq(RowsInOrder(table, DOMAIN table), OfShift)
    IN  [i \in 1 .. Len(rows) |->
            Spread(rows[i], [role |-> roleTable[rows[i].roleId.n]])]

\* getShifts(eventId)
getShifts(table, eventId) ==
    LET IsOfEvent(shift) == shift.eventId = Num(eventId)
    IN  SelectSeq(RowsInOrder(table, DOMAIN table), IsOfEvent)

\* getRoles(eventId)
getRoles(table, eventId) ==
    LET IsOfEvent(role) == role.eventId = Num(eventId)
    IN  SelectSeq(RowsInOrder(table, DOMAIN table), IsOfEvent)

\* deleteRole, first statement, forgetting the rows of the role
deleteRoleAssignments_None(table, roleId) == table

\* deleteRole, first statement: the shift_roles rows of the role go
deleteRoleAssignments(table, roleId) ==
    [i \in {j \in DOMAIN table : table[j].roleId # Num(roleId)} |-> table[i]]

\* deleteRole, second statement: the role goes; true when a row was deleted
deleteRoleRow(table, roleId) ==
    [table |-> Remove(table, roleId), result |-> Bool(roleId \in DOMAIN table)]

\* insertRoleSchema / insertShiftRoleSchema .safeParse(body).success
RoleBodyValid(body) ==
    /\ IsA(body, "eventId", "number")
    /\ IsA(body, "name", "string")
    /\ IsOptional(body, "description", "string")

ShiftRoleBodyValid(body) ==
    /\ IsA(body, "shiftId", "number")
    /\ IsA(body, "roleId", "number")

RoleData(body) == [c \in (DOMAIN body \cap RoleColumns) \ {"id"} |-> body[c]]
ShiftRoleData(body) == [c \in (DOMAIN body \cap ShiftRoleColumns) \ {"id"} |-> body[c]]

----------------------------------------------------------------------------
(* Role and assignment requests (routes.ts) *)

RoleIds == {1, 2}

RoleBodies ==
    { [eventId |-> Num(1), name |-> Str("Greeter")], [eventId |-> Num(1)] }

ShiftRoleBodies ==
    { [shiftId |-> Num(sh), roleId |-> Num(r)] : sh \in ShiftIds, r \in RoleIds } \cup
    { [shiftId |-> Num(1)] }

\* POST /api/roles
PostRoles(body) ==
    /\ impl = "db" /\ pc = Idle
    /\ IF ~RoleBodyValid(body)
       THEN /\ last' = [op |-> "POST roles", id |-> 0, arg |-> body, start |-> now,
                        result |-> Undefined, status |-> 400]
            /\ UNCHANGED <<roles, seq>>
       ELSE /\ seq.roles <= MaxRoles
            /\ LET r == createRole(roles, seq.roles, RoleData(body))
               IN  /\ roles' = r.table
                   /\ last' = [op |-> "POST roles", id |-> seq.roles, arg |-> body,
                               start |-> now, result |-> r.result, status |-> 201]
            /\ seq' = [seq EXCEPT !.roles = @ + 1]
    /\ UNCHANGED <<mirror, variant, client, impl, users, events, volunteers, shifts, shiftRoles, pc, now>>

\* DELETE /api/roles/:id, up to the call of storage.deleteRole
DeleteRoleBegin(id) ==
    /\ impl = "db" /\ pc = Idle
    /\ IF ~Truthy(getRole(roles, id))
       THEN /\ last' = [op |-> "DELETE role", id |-> id, arg |-> Undefined, start |-> now,
                        result |-> Undefined, status |-> 404]
            /\ UNCHANGED pc
       ELSE /\ pc' = [at |-> "deleteRole: assignments", id |-> id, viaRoute |-> TRUE]
            /\ UNCHANGED last
    /\ UNCHANGED <<mirror, variant, client, impl, users, events, volunteers, shifts, roles, shiftRoles, seq, now>>

\* storage.deleteRole(id) called directly
DeleteRoleCall(id) ==
    /\ impl = "db" /\ pc = Idle
    /\ pc' = [at |-> "deleteRole: assignments", id |-> id, viaRoute |-> FALSE]
    /\ UNCHANGED <<mirror, variant, client, impl, users, events, volunteers, shifts, roles, shiftRoles, seq, now, last>>

\* storage.deleteRole, first statement
DeleteRoleAssignments ==
    /\ pc.at = "deleteRole: assignments"
    /\ shiftRoles' = deleteRoleAssignments(shiftRoles, pc.id)
    /\ pc' = [pc EXCEPT !.at = "deleteRole: role"]
    /\ UNCHANGED <<mirror, variant, client, impl, users, events, volunteers, shifts, roles, seq, now, last>>

\* storage.deleteRole, second statement, and the response
DeleteRoleFinish ==
    /\ pc.at = "deleteRole: role"
    /\ LET r == deleteRoleRow(roles, pc.id)
       IN  /\ roles' = r.table
           /\ last' = [op |-> "deleteRole", id |-> pc.id, arg |-> Undefined, start |-> now,
                       result |-> r.result,
                       status |-> IF ~pc.viaRoute THEN 0
                                  ELSE IF Truthy(r.result) THEN 204 ELSE 500]
    /\ pc' = Idle
    /\ UNCHANGED <<mirror, variant, client, impl, users, events, volunteers, shifts, shiftRoles, seq, now>>

\* POST /api/shift-roles
PostShiftRoles(body) ==
    /\ impl = "db" /\ pc = Idle
    /\ IF ~ShiftRoleBodyValid(body)
       THEN /\ last' = [op |-> "POST shift-roles", id |-> 0, arg |-> body, start |-> now,
                        result |-> Undefined, status |-> 400]
            /\ UNCHANGED <<shiftRoles, seq>>
       ELSE LET r == assignRoleToShift(shiftRoles, seq.shiftRoles, ShiftRoleData(body))
            IN  /\ r.table # shiftRoles => seq.shiftRoles <= MaxShiftRoles
                /\ shiftRoles' = r.table
                /\ last' = [op |-> "POST shift-roles", id |-> r.result.id.n, arg |-> body,
                            start |-> now, result |-> r.result, status |-> 201]
                /\ seq' = IF r.table # shiftRoles
                          THEN [seq EXCEPT !.shiftRoles = @ + 1] ELSE seq
    /\ UNCHANGED <<mirror, variant, client, impl, users, events, volunteers, shifts, roles, pc, now>>

\* DELETE /api/shifts/:shiftId/roles/:roleId
DeleteShiftRole(shiftId, roleId) ==
    /\ impl = "db" /\ pc = Idle
    /\ LET r == removeRoleFromShift(shiftRoles, shiftId, roleId)
       IN  /\ shiftRoles' = r.table
           /\ last' = [op |-> "DELETE shift-role", id |-> shiftId, arg |-> Num(roleId),
                       start |-> now, result |-> r.result,
                       status |-> IF Truthy(r.result) THEN 204 ELSE 404]
    /\ UNCHANGED <<mirror, variant, client, impl, users, events, volunteers, shifts, roles, pc, seq, now>>

NextRoles ==
    \/ PostShifts(NewShift(1, 1))
    \/ \E id \in {1} : DeleteShift(id)
    \/ \E body \in RoleBodies : PostRoles(body)
    \/ \E id \in RoleIds : DeleteRoleBegin(id)
    \/ \E id \in RoleIds : DeleteRoleCall(id)
    \/ DeleteRoleAssignments
    \/ DeleteRoleFinish
    \/ \E body \in ShiftRoleBodies : PostShiftRoles(body)
    \/ \E sh \in ShiftIds, r \in RoleIds : DeleteShiftRole(sh, r)

SpecRoles == Init /\ [][NextRoles]_vars

----------------------------------------------------------------------------
(* The remaining routes of routes.ts, and all routes together *)

getEvent(table, id) == IF id \in DOMAIN table THEN table[id] ELSE Undefined

getVolunteer(table, id) == IF id \in DOMAIN table THEN table[id] ELSE Undefined

\* updateRole(id, updates)
updateRole(table, id, updates) ==
    DbUpdate(table, id, [c \in (DOMAIN updates \cap RoleColumns) \ {"id"} |-> updates[c]])

\* insertEventSchema.safeParse(body).success
EventBodyValid(body) ==
    /\ IsA(body, "name", "string")
    /\ IsA(body, "date", "string")
    /\ IsA(body, "time", "string")
    /\ IsA(body, "location", "string")

EventData(body) == [c \in (DOMAIN body \cap EventColumns) \ {"id"} |-> body[c]]

\* POST /api/events
PostEvents(body) ==
    /\ pc = Idle
    /\ IF ~EventBodyValid(body)
       THEN /\ last' = [op |-> "POST events", id |-> 0, arg |-> body, start |-> now,
                        result |-> Undefined, status |-> 400]
            /\ UNCHANGED <<events, seq>>
       ELSE /\ seq.events <= DemoEvents + MaxNewEvents
            /\ LET r == createEvent(impl, events, seq.events, EventData(body))
               IN  /\ events' = r.table
                   /\ last' = [op |-> "POST events", id |-> seq.events, arg |-> body,
                               start |-> now, result |-> r.result, status |-> 201]
            /\ seq' = [seq EXCEPT !.events = @ + 1]
    /\ UNCHANGED <<mirror, variant, client, impl, users, volunteers, shiftVars, now>>

\* a read route that answers 200 whatever it found
Found_AlwaysOk(op, id, entity) ==
    [op |-> op, id |-> id, arg |-> Undefined, start |-> now, result |-> entity,
     status |-> 200]

\* the response of a route that reads one entity: 404 when it is not there
Found(op, id, entity) ==
    [op |-> op, id |-> id, arg |-> Undefined, start |-> now, result |-> entity,
     status |-> IF ~Truthy(entity) THEN 404 ELSE 200]

\* GET /api/events/:id
GetEvent(id) ==
    /\ pc = Idle
    /\ last' = Found("GET event", id, getEvent(events, id))
    /\ UNCHANGED <<mirror, variant, client, impl, users, events, volunteers, shiftVars, seq, now>>

\* GET /api/volunteers/:id
GetVolunteer(id) ==
    /\ pc = Idle
    /\ last' = Found("GET volunteer", id, getVolunteer(volunteers, id))
    /\ UNCHANGED <<mirror, variant, client, impl, users, events, volunteers, shiftVars, seq, now>>

\* GET /api/shifts/:id
GetShift(id) ==
    /\ impl = "db" /\ pc = Idle
    /\ last' = Found("GET shift", id, getShift(shifts, id))
    /\ UNCHANGED <<mirror, variant, client, impl, users, events, volunteers, shiftVars, seq, now>>

\* GET /api/roles/:id
GetRole(id) ==
    /\ impl = "db" /\ pc = Idle
    /\ last' = Found("GET role", id, getRole(roles, id))
    /\ UNCHANGED <<mirror, variant, client, impl, users, events, volunteers, shiftVars, seq, now>>

\* PATCH /api/roles/:id: the body goes to updateRole as it came
PatchRole(id, body) ==
    /\ impl = "db" /\ pc = Idle
    /\ IF ~Truthy(getRole(roles, id))
       THEN /\ last' = [op |-> "PATCH role", id |-> id, arg |-> body, start |-> now,
                        result |-> Undefined, status |-> 404]
            /\ UNCHANGED roles
       ELSE LET r == updateRole(roles, id, body)
            IN  /\ roles' = r.table
                /\ last' = [op |-> "PATCH role", id |-> id, arg |-> body, start |-> now,
                            result |-> r.result, status |-> 200]
    /\ UNCHANGED <<mirror, variant, client, impl, users, events, volunteers, shifts, shiftRoles, pc, seq, now>>

ApiEventBodies ==
    { [name |-> Str("Gala"), date |-> Str("July 1, 2023"),
       time |-> Str("6:00 PM - 9:00 PM"), location |-> Str("Town Hall")],
      [name |-> Str("Gala")] }

\* POST /api/shifts while the shifts table has never had a row
PostFirstShift(body) ==
    /\ seq.shifts = 1
    /\ PostShifts(body)

ApiShiftUpdates == { [title |-> Str("Late"), maxVolunteers |-> Num(5)], [title |-> Num(1)] }

RoleUpdates == { [name |-> Str("Usher")], [name |-> Num(7)] }

ApiShiftRoleBodies == { [shiftId |-> Num(1), roleId |-> Num(1)], [shiftId |-> Num(1)] }

\* every route
NextApi ==
    \/ \E body \in ApiEventBodies : PostEvents(body)
    \/ \E id \in {1, DemoEvents + MaxNewEvents + 1} : GetEvent(id)
    \/ \E id \in VolunteerIds : GetVolunteer(id)
    \/ \E id \in VolunteerIds, body \in CheckInBodies : PostCheckIn(id, body)
    \/ PostFirstShift(NewShift(1, 1))
    \/ PostShifts([eventId |-> Num(1)])
    \/ \E id \in {1}, body \in ApiShiftUpdates : PutShift(id, body)
    \/ \E id \in {1} : GetShift(id)
    \/ \E id \in {1} : DeleteShift(id)
    \/ \E body \in RoleBodies : PostRoles(body)
    \/ \E id \in {1} : GetRole(id)
    \/ \E id \in {1}, body \in RoleUpdates : PatchRole(id, body)
    \/ \E id \in {1} : DeleteRoleBegin(id)
    \/ DeleteRoleAssignments
    \/ DeleteRoleFinish
    \/ \E body \in ApiShiftRoleBodies : PostShiftRoles(body)
    \/ \E sh \in {1}, r \in {1} : DeleteShiftRole(sh, r)

SpecApi == Init /\ [][NextApi]_vars

\* every route that writes
NextWrites ==
    \/ \E body \in ApiEventBodies : PostEvents(body)
    \/ \E id \in VolunteerIds, body \in CheckInBodies : PostCheckIn(id, body)
    \/ PostFirstShift(NewShift(1, 1))
    \/ \E id \in {1}, body \in ApiShiftUpdates : PutShift(id, body)
    \/ \E id \in {1} : DeleteShift(id)
    \/ \E body \in RoleBodies : PostRoles(body)
    \/ \E id \in {1}, body \in RoleUpdates : PatchRole(id, body)
    \/ \E id \in {1} : DeleteRoleBegin(id)
    \/ DeleteRoleAssignments
    \/ DeleteRoleFinish
    \/ \E body \in ApiShiftRoleBodies : PostShiftRoles(body)
    \/ \E sh \in {1}, r \in {1} : DeleteShiftRole(sh, r)

SpecWrites == Init /\ [][NextWrites]_vars

----------------------------------------------------------------------------
(* Users, and the check-in route behind isAuthenticated (storage.ts) *)

UserColumns == {"id", "username", "password", "firstName", "lastName"}

UserDefault == [col \in UserColumns |-> Null]

createUser(st, table, id, insertUser) ==
    IF st = "mem" THEN MemCreate(table, id, insertUser)
    ELSE DbInsert(table, id, insertUser, UserColumns, UserDefault)

\* getUserByUsername(username): the first user of that name
getUserByUsername(table, username) ==
    LET found == {i \in DOMAIN table : Get(table[i], "username") = username}
    IN  IF found = {} THEN Undefined
        ELSE table[CHOOSE i \in found : \A j \in found : i <= j]

\* the name of the session user, taken from the username alone
UserName_UsernameOnly(user) ==
    IF Truthy(Get(user, "username")) THEN user.username ELSE Str("Admin")

\* user.firstName && user.lastName ? `${firstName} ${lastName}` : (user.username || "Admin")
UserName(user) ==
    IF Truthy(Get(user, "firstName")) /\ Truthy(Get(user, "lastName"))
    THEN Str(user.firstName.s \o " " \o user.lastName.s)
    ELSE IF Truthy(Get(user, "username")) THEN user.username ELSE Str("Admin")

\* storage.createUser: the users table takes a username once
CreateUserCall(insertUser) ==
    /\ pc = Idle
    /\ seq.users <= MaxUsers
    /\ impl = "db" => getUserByUsername(users, insertUser.username) = Undefined
    /\ LET r == createUser(impl, users, seq.users, insertUser)
       IN  /\ users' = r.table
           /\ last' = [op |-> "createUser", id |-> seq.users, arg |-> insertUser,
                       start |-> now, result |-> r.result, status |-> 0]
    /\ seq' = [seq EXCEPT !.users = @ + 1]
    /\ UNCHANGED <<mirror, variant, client, impl, events, volunteers, shiftVars, now>>

\* POST /api/volunteers/:id/check-in behind isAuthenticated; sub is
\* req.user.claims.sub
PostCheckInAuth(id, body, sub) ==
    /\ variant = "authenticated"
    /\ pc = Idle
    /\ LET user == getUserByUsername(users, sub)
           call == [op |-> "POST check-in (session)", id |-> id,
                    arg |-> [body |-> body, sub |-> sub], start |-> now]
       IN  IF ~Truthy(user)
           THEN /\ last' = Spread(call, [result |-> Undefined, status |-> 401])
                /\ UNCHANGED volunteers
           ELSE LET r == checkInVolunteer(impl, volunteers, id, UserName(user), now)
                IN  /\ volunteers' = r.table
                    /\ last' = Spread(call,
                                  [result |-> r.result,
                                   status |-> IF ~Truthy(r.result) THEN 404 ELSE 200])
    /\ UNCHANGED <<mirror, variant, client, impl, users, events, shiftVars, seq, now>>

UserInserts ==
    { [username |-> Str("alice"), password |-> Str("x"),
       firstName |-> Str("Alice"), lastName |-> Str("Smith")],
      [username |-> Str("carol"), password |-> Str("x"), firstName |-> Str("Carol")],
      [username |-> Str("bob"), password |-> Str("x")],
      [username |-> Str(""), password |-> Str("x")] }

Subs == {Str("alice"), Str("carol"), Str("bob"), Str(""), Str("nobody")}

SessionBodies == { [checkedInBy |-> Str("Mallory")], [checkedInBy |-> Num(7)] }

NextCheckIn ==
    \/ \E insertUser \in UserInserts : CreateUserCall(insertUser)
    \/ \E id \in VolunteerIds, body \in CheckInBodies : PostCheckIn(id, body)
    \/ \E id \in VolunteerIds, body \in SessionBodies, sub \in Subs :
          PostCheckInAuth(id, body, sub)

SpecCheckIn == InitAnyVariant /\ [][NextCheckIn]_vars

----------------------------------------------------------------------------
(* The client: the AssignRoles page (part_003).  A request of the client is  *)
(* one step: it either fails (apiRequest throws, the server did nothing) or  *)
(* the server handles it.                                                    *)

\* no handler of the page is running.  Every page of the flow also keeps
\* `caught`: whether a catch block has run (console.error was called) since
\* its handler last started
Resting == [at |-> "rest"]

Ids(rows) == {rows[i].id.n : i \in 1 .. Len(rows)}

\* the role ids GET /api/shifts/:shiftId/roles answers
AssignedRoles(shiftId) ==
    LET shiftRolesOfShift == getShiftRoles(shiftRoles, roles, shiftId)
    IN  {shiftRolesOfShift[i].role.id.n : i \in 1 .. Len(shiftRolesOfShift)}

\* the page with its queries resolved and fetchExistingAssignments done: the
\* Map has an entry per shift, or none at all without shifts or without roles
AssignRolesPage(eventId) ==
    LET shiftList == Ids(getShifts(shifts, eventId))
        roleList == Ids(getRoles(roles, eventId))
    IN  [page |-> "AssignRoles", eventId |-> eventId,
         shifts |-> shiftList, roles |-> roleList,
         shiftRoleAssignments |->
             IF shiftList = {} \/ roleList = {} THEN << >>
             ELSE [sh \in shiftList |-> AssignedRoles(sh)],
         run |-> Resting, caught |-> FALSE]

\* caught: a catch block has run in the handler that led here
EventConfirmationPage(eventId, caught) ==
    [page |-> "EventConfirmation", eventId |-> eventId, caught |-> caught]

Least(S) == CHOOSE x \in S : \A y \in S : x <= y

\* the Map a running handleSaveAssignments closed over: its Sets are those of
\* the state, until the state is replaced by a Map of new Sets (`closed` is
\* then what the old Map held)
ClosedOver(c) == IF "closed" \in DOMAIN c THEN c.closed ELSE c.shiftRoleAssignments

\* the assignments array of handleSaveAssignments: the entries of the Map the
\* handler closed over (`seen` are its keys; later toggles reach it through
\* the Sets it shares with the newer Maps)
Assignments(c, seen) ==
    {<<sh, r>> \in (seen \cap DOMAIN ClosedOver(c)) \X c.roles : r \in ClosedOver(c)[sh]}

\* handleSaveAssignments from the end of a step of the clearing loop up to its
\* next request: the next shift to clear, or the first POST, or, with nothing
\* to post, the success toast and the confirmation page
AfterClearing(c, left, seen) ==
    IF left # {}
    THEN [c EXCEPT !.run = [at |-> "clear", left |-> left, seen |-> seen]]
    ELSE IF Assignments(c, seen) = {}
         THEN EventConfirmationPage(c.eventId, c.caught)
         ELSE [c EXCEPT !.run = [at |-> "create", todo |-> Assignments(c, seen)]]

\* the page is opened
OpenAssignRoles(eventId) ==
    /\ impl = "db" /\ pc = Idle
    /\ client.page # "AssignRoles"
    /\ client' = AssignRolesPage(eventId)
    /\ UNCHANGED <<mirror, variant, impl, users, events, volunteers, shiftVars, seq, now, last>>

\* a toggle that only ever ticks
toggleRoleAssignment_AddOnly(prevState, shiftId, roleId) ==
    IF shiftId \notin DOMAIN prevState
    THEN Put(prevState, shiftId, {roleId})
    ELSE [prevState EXCEPT ![shiftId] = @ \cup {roleId}]

\* the state updater of toggleRoleAssignment(shiftId, roleId)
toggleRoleAssignment(prevState, shiftId, roleId) ==
    IF shiftId \notin DOMAIN prevState
    THEN Put(prevState, shiftId, {roleId})
    ELSE [prevState EXCEPT ![shiftId] =
             IF roleId \in @ THEN @ \ {roleId} ELSE @ \cup {roleId}]

\* isRoleAssignedToShift(shiftId, roleId)
isRoleAssignedToShift(state, shiftId, roleId) ==
    shiftId \in DOMAIN state /\ roleId \in state[shiftId]

\* toggleRoleAssignment(shiftId, roleId): a checkbox is clicked (the
\* checkboxes stay enabled while a save runs)
ToggleRoleAssignment(shiftId, roleId) ==
    /\ client.page = "AssignRoles"
    /\ shiftId \in client.shifts /\ roleId \in client.roles
    /\ client' = [client EXCEPT !.shiftRoleAssignments =
                                    toggleRoleAssignment(@, shiftId, roleId)]
    /\ UNCHANGED <<mirror, variant, impl, users, events, volunteers, shiftVars, seq, now, last>>

\* handleSaveAssignments, up to its first request
SaveAssignments ==
    /\ client.page = "AssignRoles"
    /\ client.run = Resting
    /\ client.eventId # 0
    /\ LET c == [f \in DOMAIN client \ {"closed"} |-> client[f]]
       IN  client' = AfterClearing([c EXCEPT !.caught = FALSE], c.shifts,
                                   DOMAIN c.shiftRoleAssignments)
    /\ UNCHANGED <<mirror, variant, impl, users, events, volunteers, shiftVars, seq, now, last>>

\* the clearing loop, GET /api/shifts/:id/roles of the next shift: a failure is
\* caught and logged, and the loop goes on with the shift after it
ClearShiftGet(fail) ==
    /\ client.page = "AssignRoles"
    /\ client.run.at = "clear"
    /\ LET run == client.run
           shiftId == Least(run.left)
           existingRoles == AssignedRoles(shiftId)
       IN  client' =
               IF fail \/ existingRoles = {}
               THEN AfterClearing([client EXCEPT !.caught = @ \/ fail],
                                  run.left \ {shiftId}, run.seen)
               ELSE [client EXCEPT !.run = [at |-> "delete", shift |-> shiftId,
                                            existing |-> existingRoles,
                                            left |-> run.left, seen |-> run.seen]]
    /\ UNCHANGED <<mirror, variant, impl, users, events, volunteers, shiftVars, seq, now, last>>

\* the clearing loop, DELETE /api/shifts/:shiftId/roles/:roleId of the next
\* role: a failure (a 404 too) ends the clearing of this shift
ClearShiftDelete(fail) ==
    /\ client.page = "AssignRoles"
    /\ client.run.at = "delete"
    /\ LET run == client.run
           roleId == Least(run.existing)
           r == removeRoleFromShift(shiftRoles, run.shift, roleId)
           failed == fail \/ ~Truthy(r.result)
       IN  /\ shiftRoles' = IF fail THEN shiftRoles ELSE r.table
           /\ client' =
                 IF failed \/ run.existing = {roleId}
                 THEN AfterClearing([client EXCEPT !.caught = @ \/ failed],
                                    run.left \ {run.shift}, run.seen)
                 ELSE [client EXCEPT !.run.existing = @ \ {roleId}]
    /\ UNCHANGED <<mirror, variant, impl, users, events, volunteers, shifts, roles, pc, seq, now, last>>

\* the creating loop, POST /api/shift-roles of the next assignment: a failure
\* ends the save with the error toast; after the last one the success toast
\* and the confirmation page
CreateAssignment(fail) ==
    /\ client.page = "AssignRoles"
    /\ client.run.at = "create"
    /\ LET todo == client.run.todo
           assignment == CHOOSE a \in todo :
                             \A b \in todo : a[1] < b[1] \/ (a[1] = b[1] /\ a[2] <= b[2])
           body == [shiftId |-> Num(assignment[1]), roleId |-> Num(assignment[2])]
           r == assignRoleToShift(shiftRoles, seq.shiftRoles, ShiftRoleData(body))
       IN  IF fail
           THEN /\ client' = [client EXCEPT !.run = Resting, !.caught = TRUE]
                /\ UNCHANGED <<shiftRoles, seq>>
           ELSE /\ r.table # shiftRoles => seq.shiftRoles <= MaxShiftRoles
                /\ shiftRoles' = r.table
                /\ seq' = IF r.table # shiftRoles
                          THEN [seq EXCEPT !.shiftRoles = @ + 1] ELSE seq
                /\ client' = IF todo = {assignment}
                             THEN EventConfirmationPage(client.eventId, client.caught)
                             ELSE [client EXCEPT !.run.todo = @ \ {assignment}]
    /\ UNCHANGED <<mirror, variant, impl, users, events, volunteers, shifts, roles, pc, now, last>>

\* an event gets shifts and a role, then the page is used
NextAssign ==
    \/ PostShifts(NewShift(1, 1))
    \/ PostRoles([eventId |-> Num(1), name |-> Str("Greeter")])
    \/ OpenAssignRoles(1)
    \/ \E sh \in ShiftIds, r \in RoleIds : ToggleRoleAssignment(sh, r)
    \/ SaveAssignments
    \/ \E fail \in BOOLEAN : ClearShiftGet(fail)
    \/ \E fail \in BOOLEAN : ClearShiftDelete(fail)
    \/ \E fail \in BOOLEAN : CreateAssignment(fail)

SpecAssign == Init /\ [][NextAssign]_vars

----------------------------------------------------------------------------
(* The client: the event-creation flow.  CreateEvent, CreateShifts and       *)
(* CreateRoles each have one submit handler; a handler is one step, and the  *)
(* requests of it that fail are an input of the step.                        *)

CreateEventPage == [page |-> "CreateEvent", caught |-> FALSE]
CreateShiftsPage(eventId) == [page |-> "CreateShifts", eventId |-> eventId, caught |-> FALSE]
CreateRolesPage(eventId) == [page |-> "CreateRoles", eventId |-> eventId, caught |-> FALSE]

\* the table after one POST /api/shifts per body, in order
RECURSIVE PostedShifts(_, _, _)
PostedShifts(table, id, bodies) ==
    IF bodies = << >> THEN table
    ELSE PostedShifts(createShift(table, id, ShiftData(Head(bodies))).table,
                      id + 1, Tail(bodies))

\* the table after one POST /api/roles per body, in order
RECURSIVE PostedRoles(_, _, _)
PostedRoles(table, id, bodies) ==
    IF bodies = << >> THEN table
    ELSE PostedRoles(createRole(table, id, RoleData(Head(bodies))).table,
                     id + 1, Tail(bodies))

\* Home: the "create event" link
OpenCreateEvent ==
    /\ impl = "db" /\ pc = Idle
    /\ client.page = "Home"
    /\ client' = CreateEventPage
    /\ UNCHANGED <<mirror, variant, impl, users, events, volunteers, shiftVars, seq, now, last>>

\* CreateEvent.onSubmit: POST /api/events, then the create-shifts page of the
\* new event; a failure is caught and the page stays
CreateEventOnSubmit(apiData, fail) ==
    /\ client.page = "CreateEvent"
    /\ IF fail \/ ~EventBodyValid(apiData)
       THEN /\ client' = [client EXCEPT !.caught = TRUE]
            /\ UNCHANGED <<events, seq>>
       ELSE /\ seq.events <= DemoEvents + MaxNewEvents
            /\ events' = createEvent(impl, events, seq.events, EventData(apiData)).table
            /\ seq' = [seq EXCEPT !.events = @ + 1]
            /\ client' = CreateShiftsPage(seq.events)
    /\ UNCHANGED <<mirror, variant, impl, users, volunteers, shiftVars, now, last>>

\* CreateShifts.onSubmit with n shifts in the form: Promise.all of one POST
\* /api/shifts per shift; the requests of `failing` are rejected, the others
\* are served all the same; the create-roles page only if none was rejected
CreateShiftsOnSubmit(n, failing) ==
    /\ client.page = "CreateShifts"
    /\ LET served == SelectSeq([i \in 1 .. n |-> i], LAMBDA i : i \notin failing)
           bodies == [k \in 1 .. Len(served) |-> NewShift(client.eventId, served[k])]
       IN  /\ seq.shifts + Len(served) - 1 <= MaxShifts
           /\ shifts' = PostedShifts(shifts, seq.shifts, bodies)
           /\ seq' = [seq EXCEPT !.shifts = @ + Len(served)]
    /\ client' = IF failing = {} THEN CreateRolesPage(client.eventId)
                 ELSE [client EXCEPT !.caught = TRUE]
    /\ UNCHANGED <<mirror, variant, impl, users, events, volunteers, roles, shiftRoles, pc,
                   now, last>>

\* CreateRoles.onSubmit: one POST /api/roles per role with a name, one after
\* the other; the failAt-th request (none when 0) is rejected and ends the
\* loop; after the last one the assign-roles page
CreateRolesOnSubmit(names, failAt) ==
    /\ client.page = "CreateRoles"
    /\ client.eventId # 0
    /\ LET named == SelectSeq(names, LAMBDA name : Trim(name) # "")
           sent == IF failAt = 0 THEN named ELSE SubSeq(named, 1, failAt - 1)
           bodies == [k \in 1 .. Len(sent) |->
                        [eventId |-> Num(client.eventId), name |-> Str(Trim(sent[k])),
                         description |-> Str("")]]
       IN  /\ failAt <= Len(named)
           /\ seq.roles + Len(sent) - 1 <= MaxRoles
           /\ roles' = PostedRoles(roles, seq.roles, bodies)
           /\ seq' = [seq EXCEPT !.roles = @ + Len(sent)]
           /\ client' = IF failAt # 0 THEN [client EXCEPT !.caught = TRUE]
                        ELSE AssignRolesPage(client.eventId)
    /\ UNCHANGED <<mirror, variant, impl, users, events, volunteers, shifts, shiftRoles, pc,
                   now, last>>

\* the Back button of CreateRoles
BackToCreateShifts ==
    /\ client.page = "CreateRoles"
    /\ client' = CreateShiftsPage(client.eventId)
    /\ UNCHANGED <<mirror, variant, impl, users, events, volunteers, shiftVars, seq, now, last>>

\* the Back button of AssignRoles, disabled while a save runs
BackToCreateRoles ==
    /\ client.page = "AssignRoles"
    /\ client.run = Resting
    /\ client' = CreateRolesPage(client.eventId)
    /\ UNCHANGED <<mirror, variant, impl, users, events, volunteers, shiftVars, seq, now, last>>

\* the names the roles form is filled with
RoleForms == { <<" Greeter ">>, <<" ", "Greeter">>, <<"">> }

NextFlow ==
    \/ OpenCreateEvent
    \/ \E apiData \in EventInserts, fail \in BOOLEAN : CreateEventOnSubmit(apiData, fail)
    \/ \E n \in 1 .. 2 : \E failing \in SUBSET (1 .. n) : CreateShiftsOnSubmit(n, failing)
    \/ \E names \in RoleForms, failAt \in 0 .. 1 : CreateRolesOnSubmit(names, failAt)
    \/ BackToCreateShifts
    \/ BackToCreateRoles
    \/ \E sh \in 1 .. MaxShifts, r \in RoleIds : ToggleRoleAssignment(sh, r)
    \/ SaveAssignments
    \/ \E fail \in BOOLEAN : ClearShiftGet(fail)
    \/ \E fail \in BOOLEAN : ClearShiftDelete(fail)
    \/ \E fail \in BOOLEAN : CreateAssignment(fail)

SpecFlow == Init /\ [][NextFlow]_vars

----------------------------------------------------------------------------
(* The shift list of an event, and the start times the TimePicker offers *)

\* TimePicker.times
times ==
    << "6:00 AM", "7:00 AM", "8:00 AM", "9:00 AM", "10:00 AM", "11:00 AM", "12:00 PM",
       "1:00 PM", "2:00 PM", "3:00 PM", "4:00 PM", "5:00 PM", "6:00 PM", "7:00 PM",
       "8:00 PM", "9:00 PM", "10:00 PM" >>

\* the characters of the labels in the order a collation puts them: by code
\* unit the digits come before the colon, in the Unicode collation of Intl
\* punctuation comes before the digits
Collation(punctuationFirst) ==
    IF punctuationFirst THEN " :0123456789AMP" ELSE " 0123456789:AMP"

Weight(ch, collation) ==
    CHOOSE i \in 1 .. Len(collation) : SubSeq(collation, i, i) = ch

\* a.localeCompare(b): the sign of the first difference, a prefix first
RECURSIVE localeCompare(_, _, _)
localeCompare(a, b, collation) ==
    IF a = "" /\ b = "" THEN 0
    ELSE IF a = "" THEN -1
    ELSE IF b = "" THEN 1
    ELSE LET wa == Weight(SubSeq(a, 1, 1), collation)
             wb == Weight(SubSeq(b, 1, 1), collation)
         IN  IF wa < wb THEN -1
             ELSE IF wa > wb THEN 1
             ELSE localeCompare(SubSeq(a, 2, Len(a)), SubSeq(b, 2, Len(b)), collation)

\* the comparator of the route: by date, then by start time
CompareShifts(a, b, collation) ==
    LET dateCompare == NewDate(a.shiftDate).ms - NewDate(b.shiftDate).ms
    IN  IF dateCompare # 0 THEN dateCompare
        ELSE localeCompare(a.startTime.s, b.startTime.s, collation)

\* Array.prototype.sort with that comparator: a stable sort
RECURSIVE SortShifts(_, _)
SortShifts(rows, collation) ==
    IF rows = << >> THEN << >>
    ELSE LET n == Len(rows)
             sorted == SortShifts(SubSeq(rows, 1, n - 1), collation)
             x == rows[n]
             after == {i \in 1 .. Len(sorted) : CompareShifts(x, sorted[i], collation) < 0}
             at == IF after = {} THEN Len(sorted) + 1
                   ELSE CHOOSE i \in after : \A j \in after : i <= j
         IN  SubSeq(sorted, 1, at - 1) \o <<x>> \o SubSeq(sorted, at, Len(sorted))

\* GET /api/events/:eventId/shifts
GetShifts(eventId, punctuationFirst) ==
    /\ impl = "db" /\ pc = Idle
    /\ last' = [op |-> "GET shifts", id |-> eventId, arg |-> Undefined, start |-> now,
                result |-> Arr(SortShifts(getShifts(shifts, eventId),
                                          Collation(punctuationFirst))),
                status |-> 200]
    /\ UNCHANGED <<mirror, variant, client, impl, users, events, volunteers, shiftVars, seq, now>>

\* POST /api/shifts from the CreateShifts form: a start time of the picker
PostTimedShift(eventId, t, startTime) ==
    /\ seq.shifts <= MaxListed
    /\ PostShifts([NewShift(eventId, t) EXCEPT !.startTime = Str(startTime)])

NextShiftList ==
    \/ \E i \in DOMAIN times, t \in {1, TicksPerDay} : PostTimedShift(1, t, times[i])
    \/ \E punctuationFirst \in BOOLEAN : GetShifts(1, punctuationFirst)

SpecShiftList == Init /\ [][NextShiftList]_vars

----------------------------------------------------------------------------
(* The dates of an event: CreateEvent turns the selected dates into text     *)
(* (part_003), CreateShifts reads them back from the event (part_001).       *)

\* [...dates].sort((a, b) => a.getTime() - b.getTime())
RECURSIVE SortDates(_)
SortDates(dates) ==
    IF dates = << >> THEN << >>
    ELSE LET first == CHOOSE i \in DOMAIN dates :
                          \A j \in DOMAIN dates :
                              dates[i].ms < dates[j].ms \/ (dates[i].ms = dates[j].ms /\ i <= j)
         IN  <<dates[first]>> \o
             SortDates(SubSeq(dates, 1, first - 1) \o SubSeq(dates, first + 1, Len(dates)))

formatSelectedDates(dates, zone) ==
    LET sortedDates == SortDates(dates)
        formattedDates == [i \in DOMAIN sortedDates |-> FormatLong(sortedDates[i], zone)]
    IN  IF Len(dates) = 0 THEN ""
        ELSE IF Len(sortedDates) = 1 THEN formattedDates[1]
        ELSE IF Len(sortedDates) = 2 THEN formattedDates[1] \o " to " \o formattedDates[2]
        ELSE Join(formattedDates, ", ")

convertFormValuesToApiData(data, zone) ==
    LET sortedDates == SortDates(data.selectedDates)
        formattedDatesList == [i \in DOMAIN sortedDates |-> FormatIso(sortedDates[i], zone)]
    IN  [name |-> Str(data.name),
         date |-> Str(formatSelectedDates(data.selectedDates, zone)),
         rawDates |-> Str(Join(formattedDatesList, "|")),
         time |-> Str(data.startTime \o " - " \o data.endTime),
         location |-> Str(data.location)]

\* the effect of CreateShifts that parses the dates of the event: rawDates
\* when the event has them, the display text otherwise
EventDates(event, zone, legacyYear) ==
    IF Truthy(Get(event, "rawDates"))
    THEN LET rawDatesList == Split(event.rawDates.s, "|")
             parsedDates == [i \in DOMAIN rawDatesList |->
                                ParseDate(rawDatesList[i], zone, legacyYear)]
         IN  IF \E i \in DOMAIN parsedDates : IsInvalidDate(parsedDates[i])
             THEN parsedDates
             ELSE SortDates(parsedDates)
    ELSE IF ~Truthy(Get(event, "date")) THEN << >>
    ELSE IF Includes(event.date.s, "to")
    THEN LET parts == Split(event.date.s, "to")
             startDate == ParseDate(Trim(parts[1]), zone, legacyYear)
             endDate == ParseDate(Trim(parts[2]), zone, legacyYear)
         IN  IF IsInvalidDate(startDate) \/ IsInvalidDate(endDate) THEN << >>
             ELSE IF endDate.ms < startDate.ms THEN << >>
             ELSE [k \in 1 .. ((endDate.ms - startDate.ms) \div TicksPerDay) + 1 |->
                      Date(startDate.ms + (k - 1) * TicksPerDay)]
    ELSE IF Includes(event.date.s, ",")
    THEN LET dateStrings == Split(event.date.s, ",")
         IN  [i \in DOMAIN dateStrings |-> ParseDate(Trim(dateStrings[i]), zone, legacyYear)]
    ELSE <<ParseDate(event.date.s, zone, legacyYear)>>

\* the days the calendar of CreateEvent is clicked on: 28, 29 and 30 September
\* and 1 October 2023
Picks == { DayNumber(2023, 9, 28) + k : k \in 0 .. 3 }

\* local time half a day behind UTC, UTC, half a day ahead
Zones == { -(TicksPerDay \div 2), 0, TicksPerDay \div 2 }

\* what the engine makes of a date text without a year
LegacyYears == { 0, 2001 }

\* the selected dates in the order they were clicked
Selections ==
    { sel \in UNION { [1 .. n -> Picks] : n \in 1 .. MaxDates } :
        \A i, j \in DOMAIN sel : i # j => sel[i] # sel[j] }

\* CreateEvent with its form filled in, in some zone and on some engine
InitDates ==
    /\ Started
    /\ variant = "unauthenticated"
    /\ \E sel \in Selections, zone \in Zones, legacyYear \in LegacyYears :
          client = [page |-> "CreateEvent", caught |-> FALSE,
                    zone |-> zone, legacyYear |-> legacyYear,
                    data |-> [name |-> "Gala",
                              selectedDates |->
                                  [i \in DOMAIN sel |-> LocalMidnight(sel[i], zone)],
                              startTime |-> "6:00 PM", endTime |-> "9:00 PM",
                              location |-> "Town Hall"]]

\* CreateEvent.onSubmit, up to its request: the payload is built
ConvertFormValues ==
    /\ client.page = "CreateEvent"
    /\ "data" \in DOMAIN client /\ "apiData" \notin DOMAIN client
    /\ client' = Spread(client, [apiData |-> convertFormValuesToApiData(client.data,
                                                                        client.zone)])
    /\ UNCHANGED <<mirror, variant, impl, users, events, volunteers, shiftVars, seq, now, last>>

\* CreateShifts is shown an event with that payload, with its rawDates (the
\* events table of part_008) or without (the events table of schema.ts)
ParseEventDates(withRawDates) ==
    /\ client.page = "CreateEvent"
    /\ "apiData" \in DOMAIN client
    /\ LET event == IF withRawDates THEN client.apiData
                    ELSE [f \in DOMAIN client.apiData \ {"rawDates"} |-> client.apiData[f]]
       IN  client' = [page |-> "CreateShifts", caught |-> FALSE,
                      zone |-> client.zone, legacyYear |-> client.legacyYear,
                      data |-> client.data, event |-> event,
                      selectedDates |-> EventDates(event, client.zone, client.legacyYear)]
    /\ UNCHANGED <<mirror, variant, impl, users, events, volunteers, shiftVars, seq, now, last>>

NextDates ==
    \/ ConvertFormValues
    \/ \E withRawDates \in BOOLEAN : ParseEventDates(withRawDates)

SpecDates == InitDates /\ [][NextDates]_vars

----------------------------------------------------------------------------
(* The two stores side by side: `storage` is a MemStorage (events,           *)
(* volunteers, last.result) and mirror is a DatabaseStorage that receives    *)
(* every call with the same arguments.  Both hand out ids from the same      *)
(* counters: MemStorage counts from 1, and so do the serial columns.         *)

\* new MemStorage() next to new DatabaseStorage() on an empty, seeded database
InitTwin == Init /\ impl = "mem"

\* what one call leaves behind in both stores
TwinCall(op, id, arg, memResult, dbEvents, dbVolunteers, dbResult) ==
    /\ impl = "mem"
    /\ last' = [op |-> op, id |-> id, arg |-> arg, start |-> now,
                result |-> memResult, status |-> 0]
    /\ mirror' = [events |-> dbEvents, volunteers |-> dbVolunteers, result |-> dbResult]

TwinCreateEvent(insert) ==
    /\ seq.events <= DemoEvents + MaxNewEvents
    /\ LET m == createEvent("mem", events, seq.events, insert)
           d == createEvent("db", mirror.events, seq.events, insert)
       IN  /\ events' = m.table
           /\ TwinCall("createEvent", seq.events, insert, m.result,
                       d.table, mirror.volunteers, d.result)
    /\ seq' = [seq EXCEPT !.events = @ + 1]
    /\ UNCHANGED <<variant, client, impl, users, volunteers, shiftVars, now>>

TwinCreateVolunteer(insert) ==
    /\ seq.volunteers <= DemoEvents * DemoVolunteers + MaxNewVolunteers
    /\ LET m == createVolunteer("mem", volunteers, seq.volunteers, insert)
           d == createVolunteer("db", mirror.volunteers, seq.volunteers, insert)
       IN  /\ volunteers' = m.table
           /\ TwinCall("createVolunteer", seq.volunteers, insert, m.result,
                       mirror.events, d.table, d.result)
    /\ seq' = [seq EXCEPT !.volunteers = @ + 1]
    /\ UNCHANGED <<variant, client, impl, users, events, shiftVars, now>>

TwinUpdateVolunteer(id, updates) ==
    /\ LET m == updateVolunteer("mem", volunteers, id, updates)
           d == updateVolunteer("db", mirror.volunteers, id, updates)
       IN  /\ volunteers' = m.table
           /\ TwinCall("updateVolunteer", id, updates, m.result,
                       mirror.events, d.table, d.result)
    /\ UNCHANGED <<variant, client, impl, users, events, shiftVars, seq, now>>

TwinCheckInVolunteer(id, checkedInBy) ==
    /\ LET m == checkInVolunteer("mem", volunteers, id, checkedInBy, now)
           d == checkInVolunteer("db", mirror.volunteers, id, checkedInBy, now)
       IN  /\ volunteers' = m.table
           /\ TwinCall("checkInVolunteer", id, checkedInBy, m.result,
                       mirror.events, d.table, d.result)
    /\ UNCHANGED <<variant, client, impl, users, events, shiftVars, seq, now>>

\* the reads
TwinGetVolunteer(id) ==
    /\ TwinCall("getVolunteer", id, Undefined, getVolunteer(volunteers, id),
                mirror.events, mirror.volunteers, getVolunteer(mirror.volunteers, id))
    /\ UNCHANGED <<variant, client, impl, users, events, volunteers, shiftVars, seq, now>>

TwinGetVolunteers(eventId) ==
    /\ TwinCall("getVolunteers", eventId, Undefined, Arr(getVolunteers(volunteers, eventId)),
                mirror.events, mirror.volunteers, Arr(getVolunteers(mirror.volunteers, eventId)))
    /\ UNCHANGED <<variant, client, impl, users, events, volunteers, shiftVars, seq, now>>

TwinGetEvent(id) ==
    /\ TwinCall("getEvent", id, Undefined, getEvent(events, id),
                mirror.events, mirror.volunteers, getEvent(mirror.events, id))
    /\ UNCHANGED <<variant, client, impl, users, events, volunteers, shiftVars, seq, now>>

TwinGetEvents ==
    /\ TwinCall("getEvents", 0, Undefined, Arr(getEvents(events)),
                mirror.events, mirror.volunteers, Arr(getEvents(mirror.events)))
    /\ UNCHANGED <<variant, client, impl, users, events, volunteers, shiftVars, seq, now>>

TwinGetEventStats(eventId) ==
    /\ TwinCall("getEventStats", eventId, Undefined, getEventStats(volunteers, eventId),
                mirror.events, mirror.volunteers, getEventStats(mirror.volunteers, eventId))
    /\ UNCHANGED <<variant, client, impl, users, events, volunteers, shiftVars, seq, now>>

NextTwin ==
    \/ Tick
    \/ \E insert \in EventInserts : TwinCreateEvent(insert)
    \/ \E insert \in VolunteerInserts : TwinCreateVolunteer(insert)
    \/ \E id \in VolunteerIds, updates \in VolunteerUpdates : TwinUpdateVolunteer(id, updates)
    \/ \E id \in VolunteerIds, by \in CheckerNames : TwinCheckInVolunteer(id, by)
    \/ \E id \in VolunteerIds : TwinGetVolunteer(id)
    \/ \E eventId \in {1, 2} : TwinGetVolunteers(eventId)
    \/ \E id \in {1, DemoEvents + 1} : TwinGetEvent(id)
    \/ TwinGetEvents
    \/ \E eventId \in {1, 2} : TwinGetEventStats(eventId)

SpecTwin == InitTwin /\ [][NextTwin]_vars

----------------------------------------------------------------------------
(* Start-up of the server on a database: initializeStorage (part_000)        *)

\* seedDemoData(storage): the demo events, then the templates for each
\* created event; ids come from the serial columns
RECURSIVE SeedRows(_, _, _, _)
SeedRows(evTable, volTable, seqs, n) ==
    IF n > DemoEvents * (DemoVolunteers + 1)
    THEN [events |-> evTable, volunteers |-> volTable, seq |-> seqs]
    ELSE IF n <= DemoEvents
    THEN SeedRows(createEvent("db", evTable, seqs.events, DemoEventRows[n]).table,
                  volTable, [seqs EXCEPT !.events = @ + 1], n + 1)
    ELSE LET e == ((n - DemoEvents - 1) \div DemoVolunteers) + 1
             k == ((n - DemoEvents - 1) % DemoVolunteers) + 1
             eventId == seqs.events - DemoEvents + e - 1
             insert == Spread(SeedTemplate(k), [eventId |-> Num(eventId)])
         IN  SeedRows(evTable,
                      createVolunteer("db", volTable, seqs.volunteers, insert).table,
                      [seqs EXCEPT !.volunteers = @ + 1], n + 1)

seedDemoData(evTable, volTable, seqs) == SeedRows(evTable, volTable, seqs, 1)

\* initializeStorage that seeds whatever the store holds
initializeStorage_AlwaysSeed(evTable, volTable, seqs) ==
    Spread(seedDemoData(evTable, volTable, seqs), [seeded |-> TRUE])

\* initializeStorage(): seed only a store without events
initializeStorage(evTable, volTable, seqs) ==
    IF Len(getEvents(evTable)) = 0
    THEN Spread(seedDemoData(evTable, volTable, seqs), [seeded |-> TRUE])
    ELSE [events |-> evTable, volunteers |-> volTable, seq |-> seqs, seeded |-> FALSE]

\* a database without rows, before the server has started
InitEmpty ==
    /\ impl = "db"
    /\ users = EmptyTable /\ events = EmptyTable /\ volunteers = EmptyTable
    /\ shifts = EmptyTable /\ roles = EmptyTable /\ shiftRoles = EmptyTable
    /\ pc = Idle
    /\ seq = [users |-> 1, events |-> 1, volunteers |-> 1,
              shifts |-> 1, roles |-> 1, shiftRoles |-> 1]
    /\ now = 0
    /\ last = NoCall
    /\ mirror = [events |-> EmptyTable, volunteers |-> EmptyTable, result |-> Undefined]
    /\ variant = "unauthenticated"
    /\ client = Closed

\* the server starts (again): initializeStorage runs
InitializeStorage ==
    /\ LET r == initializeStorage(events, volunteers, seq)
       IN  /\ events' = r.events
           /\ volunteers' = r.volunteers
           /\ seq' = r.seq
           /\ last' = [op |-> "initializeStorage", id |-> 0, arg |-> Undefined,
                       start |-> now, result |-> Bool(r.seeded), status |-> 0]
    /\ UNCHANGED <<mirror, variant, client, impl, users, shiftVars, now>>

\* createEvent on a store that holds no event yet, or after the demo events
CreateEventAround(insert) ==
    /\ seq.events = 1 \/ seq.events > DemoEvents
    /\ CreateEventCall(insert)

\* createVolunteer on a store that holds no volunteer yet, or after the demo
\* volunteers
CreateVolunteerAround(insert) ==
    /\ seq.volunteers = 1 \/ seq.volunteers > DemoEvents * DemoVolunteers
    /\ CreateVolunteerCall(insert)

\* start-ups, with storage calls in between
NextSeed ==
    \/ Tick
    \/ InitializeStorage
    \/ \E insert \in EventInserts : CreateEventAround(insert)
    \/ \E insert \in VolunteerInserts : CreateVolunteerAround(insert)
    \/ \E id \in VolunteerIds, body \in CheckInBodies : PostCheckIn(id, body)

SpecSeed == InitEmpty /\ [][NextSeed]_vars

----------------------------------------------------------------------------
(* The client: the per-date shift wizard CreateShiftsForDate (part_004),     *)
(* opened on an event of the store.                                          *)

\* the events table of part_008: the columns of schema.ts and raw_dates
DatedEventColumns == EventColumns \cup {"rawDates"}

\* POST /api/events on the schema of part_008, from CreateEvent with the
\* dates `sel` selected in a browser of the zone
PostDatedEvent(sel, zone) ==
    /\ impl = "db" /\ pc = Idle
    /\ seq.events <= DemoEvents + MaxNewEvents
    /\ LET data == [name |-> "Gala",
                    selectedDates |-> [i \in DOMAIN sel |-> LocalMidnight(sel[i], zone)],
                    startTime |-> "6:00 PM", endTime |-> "9:00 PM",
                    location |-> "Town Hall"]
           body == convertFormValuesToApiData(data, zone)
           r == DbInsert(events, seq.events, body, DatedEventColumns,
                         [col \in DatedEventColumns |-> Null])
       IN  /\ events' = r.table
           /\ last' = [op |-> "POST events", id |-> seq.events, arg |-> body,
                       start |-> now, result |-> r.result, status |-> 201]
    /\ seq' = [seq EXCEPT !.events = @ + 1]
    /\ UNCHANGED <<mirror, variant, client, impl, users, volunteers, shiftVars, now>>

\* the page at /events/:eventId/create-shifts/:dateIndex with its event
\* query resolved and the date-parsing effect run; `c` is the page before
\* (the component keeps its state when only the parameter changes)
CreateShiftsForDatePage(c, dateIndex) ==
    LET event == getEvent(events, c.eventId)
        hasText == Truthy(event) /\ (Truthy(Get(event, "rawDates")) \/ Truthy(Get(event, "date")))
        dates == IF hasText THEN EventDates(event, c.zone, c.legacyYear) ELSE c.allDates
        single == /\ hasText /\ ~Truthy(Get(event, "rawDates"))
                  /\ ~Includes(event.date.s, "to") /\ ~Includes(event.date.s, ",")
    IN  [page |-> "CreateShiftsForDate", eventId |-> c.eventId, dateIndex |-> dateIndex,
         zone |-> c.zone, legacyYear |-> c.legacyYear, backs |-> c.backs,
         allDates |-> dates,
         totalDates |-> IF hasText THEN Len(dates) ELSE c.totalDates,
         currentDate |-> IF single THEN dates[1]
                         ELSE IF hasText /\ dateIndex >= 0 /\ dateIndex < Len(dates)
                              THEN dates[dateIndex + 1]
                              ELSE c.currentDate,
         caught |-> FALSE]

\* the wizard is opened at the first date
OpenCreateShiftsForDate(eventId, zone, legacyYear) ==
    /\ impl = "db" /\ pc = Idle
    /\ client.page = "Home"
    /\ client' = CreateShiftsForDatePage(
                     [eventId |-> eventId, zone |-> zone, legacyYear |-> legacyYear,
                      backs |-> 0, allDates |-> << >>, totalDates |-> 0,
                      currentDate |-> Null], 0)
    /\ UNCHANGED <<mirror, variant, impl, users, events, volunteers, shiftVars, seq, now, last>>

\* JSON.stringify of a Date: its ISO text, or null for an Invalid Date
DateToJson(d) == IF IsInvalidDate(d) THEN Null ELSE IsoString(d.ms)

\* CreateShiftsForDate.onSubmit with one shift in the form: POST /api/shifts
\* for the current date, then the next date or, after the last, create-roles;
\* a rejected request is caught and the page stays
CreateShiftsForDateOnSubmit(fail) ==
    /\ client.page = "CreateShiftsForDate"
    /\ client.currentDate # Null
    /\ LET shiftData == [NewShift(client.eventId, 0) EXCEPT
                            !.shiftDate = DateToJson(client.currentDate)]
       IN  IF fail \/ ~ShiftBodyValid(shiftData, FALSE)
           THEN /\ client' = [client EXCEPT !.caught = TRUE]
                /\ UNCHANGED <<shifts, seq>>
           ELSE /\ shifts' = createShift(shifts, seq.shifts, ShiftData(shiftData)).table
                /\ seq' = [seq EXCEPT !.shifts = @ + 1]
                /\ client' = IF client.dateIndex < client.totalDates - 1
                             THEN CreateShiftsForDatePage(client, client.dateIndex + 1)
                             ELSE CreateRolesPage(client.eventId)
    /\ UNCHANGED <<mirror, variant, impl, users, events, volunteers, roles, shiftRoles, pc,
                   now, last>>

\* the Back button of the wizard, on a date after the first
CreateShiftsForDateBack ==
    /\ client.page = "CreateShiftsForDate"
    /\ client.dateIndex > 0
    /\ client.backs < MaxBack
    /\ client' = CreateShiftsForDatePage([client EXCEPT !.backs = @ + 1],
                                         client.dateIndex - 1)
    /\ UNCHANGED <<mirror, variant, impl, users, events, volunteers, shiftVars, seq, now, last>>

\* selections of at most two of the days
DatedSelections == { sel \in Selections : Len(sel) <= 2 }

NextWizard ==
    \/ \E sel \in DatedSelections, zone \in Zones : PostDatedEvent(sel, zone)
    \/ \E eventId \in {1, DemoEvents + 1}, zone \in Zones, legacyYear \in LegacyYears :
          OpenCreateShiftsForDate(eventId, zone, legacyYear)
    \/ \E fail \in BOOLEAN : CreateShiftsForDateOnSubmit(fail)
    \/ CreateShiftsForDateBack

SpecWizard == Init /\ [][NextWizard]_vars

----------------------------------------------------------------------------
(* The client: the AssignRoles page from its mount on, with                  *)
(* fetchExistingAssignments running next to the organizer (part_003)         *)

\* the (shift, role) pairs of the shift_roles rows
ServerPairs == {<<shiftRoles[i].shiftId.n, shiftRoles[i].roleId.n>> : i \in DOMAIN shiftRoles}

\* the page with its shifts and roles queries resolved and the effect started:
\* the Map is the empty one of useState, and fetchExistingAssignments has the
\* shifts before it (none, when it returned at once).  `toggles` counts the
\* clicks on checkboxes and `asOpened` keeps the pairs of the server at mount
MountedAssignRolesPage(eventId) ==
    LET p == AssignRolesPage(eventId)
    IN  [page |-> "AssignRoles", eventId |-> eventId, shifts |-> p.shifts, roles |-> p.roles,
         shiftRoleAssignments |-> << >>, run |-> Resting, caught |-> FALSE,
         fetch |-> [left |-> IF p.shifts = {} \/ p.roles = {} THEN {} ELSE p.shifts,
                    newAssignments |-> << >>, caught |-> FALSE],
         toggles |-> 0, asOpened |-> ServerPairs]

\* the page is opened, once
MountAssignRoles(eventId) ==
    /\ impl = "db" /\ pc = Idle
    /\ client.page = "Home"
    /\ client' = MountedAssignRolesPage(eventId)
    /\ UNCHANGED <<mirror, variant, impl, users, events, volunteers, shiftVars, seq, now, last>>

\* fetchExistingAssignments, GET /api/shifts/:id/roles of the next shift: a
\* failure is caught and leaves the shift an empty Set; after the last shift
\* setShiftRoleAssignments(newAssignments) replaces the state
FetchExistingAssignments(fail) ==
    /\ client.page = "AssignRoles"
    /\ "fetch" \in DOMAIN client
    /\ client.fetch.left # {}
    /\ LET shiftId == Least(client.fetch.left)
           roleIds == IF fail THEN {} ELSE AssignedRoles(shiftId)
           newAssignments == Put(client.fetch.newAssignments, shiftId, roleIds)
           fetch == [left |-> client.fetch.left \ {shiftId},
                     newAssignments |-> newAssignments,
                     caught |-> client.fetch.caught \/ fail]
       IN  client' =
               IF fetch.left # {}
               THEN [client EXCEPT !.fetch = fetch]
               ELSE IF client.run = Resting
                    THEN [client EXCEPT !.fetch = fetch,
                                        !.shiftRoleAssignments = newAssignments]
                    ELSE [closed |-> ClosedOver(client)] @@
                         [client EXCEPT !.fetch = fetch,
                                        !.shiftRoleAssignments = newAssignments]
    /\ UNCHANGED <<mirror, variant, impl, users, events, volunteers, shiftVars, seq, now, last>>

\* a checkbox of the mounted page is clicked
ClickCheckbox(shiftId, roleId) ==
    /\ client.page = "AssignRoles"
    /\ "toggles" \in DOMAIN client
    /\ client.toggles < MaxToggles
    /\ shiftId \in client.shifts /\ roleId \in client.roles
    /\ client' = [client EXCEPT !.shiftRoleAssignments =
                                    toggleRoleAssignment(@, shiftId, roleId),
                                !.toggles = @ + 1]
    /\ UNCHANGED <<mirror, variant, impl, users, events, volunteers, shiftVars, seq, now, last>>

\* the organizer prepares the event before the editor is opened: the shifts
\* of ShiftIds and one role
PrepareShift ==
    /\ client.page # "AssignRoles"
    /\ seq.shifts \in ShiftIds
    /\ PostShifts(NewShift(1, 1))

PrepareRole ==
    /\ client.page # "AssignRoles"
    /\ roles = EmptyTable
    /\ PostRoles([eventId |-> Num(1), name |-> Str("Greeter")])

PrepareAssignment(shiftId, roleId) ==
    /\ client.page # "AssignRoles"
    /\ shiftId \in DOMAIN shifts /\ roleId \in DOMAIN roles
    /\ PostShiftRoles([shiftId |-> Num(shiftId), roleId |-> Num(roleId)])

NextEditor ==
    \/ PrepareShift
    \/ PrepareRole
    \/ \E sh \in ShiftIds, r \in RoleIds : PrepareAssignment(sh, r)
    \/ MountAssignRoles(1)
    \/ \E fail \in BOOLEAN : FetchExistingAssignments(fail)
    \/ \E sh \in ShiftIds, r \in RoleIds : ClickCheckbox(sh, r)
    \/ SaveAssignments
    \/ \E fail \in BOOLEAN : ClearShiftGet(fail)
    \/ \E fail \in BOOLEAN : ClearShiftDelete(fail)
    \/ \E fail \in BOOLEAN : CreateAssignment(fail)

SpecEditor == Init /\ [][NextEditor]_vars

----------------------------------------------------------------------------
(* Requests handled at the same time: every await of a handler is a point    *)
(* where another request may run, and every storage statement is atomic.     *)
(* `pc` holds the requests under way, each with its position.                *)

Slots == 1 .. MaxInflight

Requests(inflight) == [at |-> "requests", id |-> 0, viaRoute |-> TRUE, inflight |-> inflight]

Inflight == IF pc = Idle THEN << >> ELSE pc.inflight

\* request k goes on to its next statement
Goes(k, request) == Requests(Put(Inflight, k, request))

\* request k has answered
Answers(k) ==
    IF DOMAIN Inflight = {k} THEN Idle ELSE Requests(Remove(Inflight, k))

\* POST /api/shift-roles arrives with a valid body naming a shift and a role
\* that exist, and calls assignRoleToShift
PostShiftRolesArrives(k, body) ==
    /\ impl = "db"
    /\ pc = Idle \/ pc.at = "requests"
    /\ k \notin DOMAIN Inflight
    /\ ShiftRoleBodyValid(body)
    /\ body.shiftId.n \in DOMAIN shifts /\ body.roleId.n \in DOMAIN roles
    /\ pc' = Goes(k, [at |-> "assignRoleToShift: lookup", data |-> ShiftRoleData(body)])
    /\ UNCHANGED <<mirror, variant, client, impl, users, events, volunteers, shifts, roles,
                   shiftRoles, seq, now, last>>

\* assignRoleToShift, the lookup: an existing row is the answer
AssignRoleLookup(k) ==
    /\ pc # Idle /\ pc.at = "requests"
    /\ k \in DOMAIN Inflight
    /\ Inflight[k].at = "assignRoleToShift: lookup"
    /\ LET data == Inflight[k].data
           existing == RowsOfPair(shiftRoles, data.shiftId, data.roleId)
       IN  IF existing # {}
           THEN /\ pc' = Answers(k)
                /\ last' = [op |-> "POST shift-roles", id |-> Least(existing), arg |-> data,
                            start |-> now, result |-> shiftRoles[Least(existing)],
                            status |-> 201]
           ELSE /\ pc' = Goes(k, [Inflight[k] EXCEPT !.at = "assignRoleToShift: insert"])
                /\ UNCHANGED last
    /\ UNCHANGED <<mirror, variant, client, impl, users, events, volunteers, shifts, roles,
                   shiftRoles, seq, now>>

\* assignRoleToShift, the insert after a lookup that found nothing
AssignRoleInsert(k) ==
    /\ pc # Idle /\ pc.at = "requests"
    /\ k \in DOMAIN Inflight
    /\ Inflight[k].at = "assignRoleToShift: insert"
    /\ seq.shiftRoles <= MaxShiftRoles
    /\ LET r == DbInsert(shiftRoles, seq.shiftRoles, Inflight[k].data, ShiftRoleColumns,
                         NullDefault)
       IN  /\ shiftRoles' = r.table
           /\ last' = [op |-> "POST shift-roles", id |-> seq.shiftRoles,
                       arg |-> Inflight[k].data, start |-> now, result |-> r.result,
                       status |-> 201]
    /\ seq' = [seq EXCEPT !.shiftRoles = @ + 1]
    /\ pc' = Answers(k)
    /\ UNCHANGED <<mirror, variant, client, impl, users, events, volunteers, shifts, roles, now>>

\* DELETE /api/roles/:id arrives: getRole, and 404 without the role
DeleteRoleArrives(k, id) ==
    /\ impl = "db"
    /\ pc = Idle \/ pc.at = "requests"
    /\ k \notin DOMAIN Inflight
    /\ IF ~Truthy(getRole(roles, id))
       THEN /\ last' = [op |-> "DELETE role", id |-> id, arg |-> Undefined, start |-> now,
                        result |-> Undefined, status |-> 404]
            /\ UNCHANGED pc
       ELSE /\ pc' = Goes(k, [at |-> "deleteRole: assignments", id |-> id])
            /\ UNCHANGED last
    /\ UNCHANGED <<mirror, variant, client, impl, users, events, volunteers, shifts, roles,
                   shiftRoles, seq, now>>

\* deleteRole, first statement
DeleteRoleFirst(k) ==
    /\ pc # Idle /\ pc.at = "requests"
    /\ k \in DOMAIN Inflight
    /\ Inflight[k].at = "deleteRole: assignments"
    /\ shiftRoles' = deleteRoleAssignments(shiftRoles, Inflight[k].id)
    /\ pc' = Goes(k, [Inflight[k] EXCEPT !.at = "deleteRole: role"])
    /\ UNCHANGED <<mirror, variant, client, impl, users, events, volunteers, shifts, roles,
                   seq, now, last>>

\* deleteRole, second statement, and the response
DeleteRoleSecond(k) ==
    /\ pc # Idle /\ pc.at = "requests"
    /\ k \in DOMAIN Inflight
    /\ Inflight[k].at = "deleteRole: role"
    /\ LET r == deleteRoleRow(roles, Inflight[k].id)
       IN  /\ roles' = r.table
           /\ last' = [op |-> "deleteRole", id |-> Inflight[k].id, arg |-> Undefined,
                       start |-> now, result |-> r.result,
                       status |-> IF Truthy(r.result) THEN 204 ELSE 500]
    /\ pc' = Answers(k)
    /\ UNCHANGED <<mirror, variant, client, impl, users, events, volunteers, shifts,
                   shiftRoles, seq, now>>

\* an event gets shifts and a role while no request is under way, then
\* requests arrive together
NextRace ==
    \/ PostShifts(NewShift(1, 1))
    \/ PostRoles([eventId |-> Num(1), name |-> Str("Greeter")])
    \/ \E k \in Slots, body \in ShiftRoleBodies : PostShiftRolesArrives(k, body)
    \/ \E k \in Slots : AssignRoleLookup(k)
    \/ \E k \in Slots : AssignRoleInsert(k)
    \/ \E k \in Slots, id \in RoleIds : DeleteRoleArrives(k, id)
    \/ \E k \in Slots : DeleteRoleFirst(k)
    \/ \E k \in Slots : DeleteRoleSecond(k)

SpecRace == Init /\ [][NextRace]_vars

----------------------------------------------------------------------------
(* Check-ins handled at the same time, next to updateVolunteer calls.  A     *)
(* request keeps its slot when it has returned.                              *)

CheckInColumns == {"checkedIn", "checkInTime", "checkedInBy"}

\* updates of a profile field, of a check-in field, and of both
RaceUpdates ==
    VolunteerUpdates \cup {[team |-> Str("West Area")], [checkedInBy |-> Str("Nobody")]}

Call(op, id, checkedInBy, t, updates, at, result) ==
    [op |-> op, id |-> id, checkedInBy |-> checkedInBy, t |-> t, updates |-> updates,
     at |-> at, result |-> result]

\* POST /api/volunteers/:id/check-in arrives with a valid body and calls
\* checkInVolunteer, which reads the clock.  MemStorage has no await between
\* its get and its set; DatabaseStorage awaits its one UPDATE
CheckInArrives(k, id, checkedInBy) ==
    /\ variant = "unauthenticated"
    /\ pc = Idle \/ pc.at = "requests"
    /\ k \notin DOMAIN Inflight
    /\ CheckInBodyValid([checkedInBy |-> checkedInBy])
    /\ IF impl = "mem"
       THEN LET r == checkInVolunteer(impl, volunteers, id, checkedInBy, now)
            IN  /\ volunteers' = r.table
                /\ pc' = Goes(k, Call("checkInVolunteer", id, checkedInBy, now, << >>,
                                      "return", r.result))
       ELSE /\ pc' = Goes(k, Call("checkInVolunteer", id, checkedInBy, now, << >>,
                                  "update", Undefined))
            /\ UNCHANGED volunteers
    /\ UNCHANGED <<mirror, variant, client, impl, users, events, shifts, roles, shiftRoles,
                   seq, now, last>>

\* DatabaseStorage.checkInVolunteer, the UPDATE
CheckInUpdate(k) ==
    /\ pc # Idle /\ pc.at = "requests"
    /\ k \in DOMAIN Inflight
    /\ Inflight[k].op = "checkInVolunteer" /\ Inflight[k].at = "update"
    /\ LET call == Inflight[k]
           r == checkInVolunteer(impl, volunteers, call.id, call.checkedInBy, call.t)
       IN  /\ volunteers' = r.table
           /\ pc' = Goes(k, [call EXCEPT !.at = "return", !.result = r.result])
    /\ UNCHANGED <<mirror, variant, client, impl, users, events, shifts, roles, shiftRoles,
                   seq, now, last>>

\* checkInVolunteer has returned and the route answers
CheckInReturns(k) ==
    /\ pc # Idle /\ pc.at = "requests"
    /\ k \in DOMAIN Inflight
    /\ Inflight[k].op = "checkInVolunteer" /\ Inflight[k].at = "return"
    /\ pc' = Goes(k, [Inflight[k] EXCEPT !.at = "done"])
    /\ last' = [op |-> "POST check-in", id |-> Inflight[k].id,
                arg |-> [checkedInBy |-> Inflight[k].checkedInBy], start |-> Inflight[k].t,
                result |-> Inflight[k].result,
                status |-> IF ~Truthy(Inflight[k].result) THEN 404 ELSE 200]
    /\ UNCHANGED <<mirror, variant, client, impl, users, events, volunteers, shifts, roles,
                   shiftRoles, seq, now>>

\* storage.updateVolunteer(id, updates) is called
UpdateVolunteerArrives(k, id, updates) ==
    /\ pc = Idle \/ pc.at = "requests"
    /\ k \notin DOMAIN Inflight
    /\ IF impl = "mem"
       THEN LET r == updateVolunteer(impl, volunteers, id, updates)
            IN  /\ volunteers' = r.table
                /\ pc' = Goes(k, Call("updateVolunteer", id, Undefined, now, updates,
                                      "done", r.result))
       ELSE /\ pc' = Goes(k, Call("updateVolunteer", id, Undefined, now, updates,
                                  "update", Undefined))
            /\ UNCHANGED volunteers
    /\ UNCHANGED <<mirror, variant, client, impl, users, events, shifts, roles, shiftRoles,
                   seq, now, last>>

\* DatabaseStorage.updateVolunteer, the UPDATE
UpdateVolunteerUpdate(k) ==
    /\ pc # Idle /\ pc.at = "requests"
    /\ k \in DOMAIN Inflight
    /\ Inflight[k].op = "updateVolunteer" /\ Inflight[k].at = "update"
    /\ LET call == Inflight[k]
           r == updateVolunteer(impl, volunteers, call.id, call.updates)
       IN  /\ volunteers' = r.table
           /\ pc' = Goes(k, [call EXCEPT !.at = "done", !.result = r.result])
    /\ UNCHANGED <<mirror, variant, client, impl, users, events, shifts, roles, shiftRoles,
                   seq, now, last>>

NextCheckInRace ==
    \/ Tick
    \/ \E k \in Slots, checkedInBy \in {Str("Ann"), Str("Ben")} :
          CheckInArrives(k, 1, checkedInBy)
    \/ \E k \in Slots : CheckInUpdate(k)
    \/ \E k \in Slots : CheckInReturns(k)
    \/ \E k \in Slots, updates \in RaceUpdates : UpdateVolunteerArrives(k, 1, updates)
    \/ \E k \in Slots : UpdateVolunteerUpdate(k)

SpecCheckInRace == Init /\ [][NextCheckInRace]_vars

----------------------------------------------------------------------------
(* Claims about volunteers and check-in, under SpecVolunteers *)

\* C1: every stored volunteer whose checkedIn is false has checkInTime and
\* checkedInBy both null (undefined counts as null here), in every state the
\* storage calls can reach.
C1_UncheckedHasNoCheckInData ==
    \A id \in DOMAIN volunteers :
        Get(volunteers[id], "checkedIn") = Bool(FALSE) =>
            /\ IsNullish(Get(volunteers[id], "checkInTime"))
            /\ IsNullish(Get(volunteers[id], "checkedInBy"))

\* C2: after a check-in of an existing volunteer the stored row has
\* checkedIn = true, checkedInBy = the given name and checkInTime = a timestamp
\* not earlier than the start of the call, all at once, and the call returns
\* exactly the stored row.
C2_CheckInSetsAllThree ==
    (/\ last.op = "POST check-in"
     /\ CheckInBodyValid(last.arg)
     /\ last.id \in DOMAIN volunteers)
    => LET v == volunteers[last.id]
       IN  /\ Get(v, "checkedIn") = Bool(TRUE)
           /\ Get(v, "checkedInBy") = last.arg.checkedInBy
           /\ Get(v, "checkInTime").kind = "date"
           /\ Get(v, "checkInTime").ms >= last.start
           /\ last.result = v
           /\ last.status = 200

\* a volunteer that was checked in before is checked in again, later, by someone else
C2_Witness ==
    /\ last.op = "POST check-in"
    /\ last.status = 200
    /\ last.start > 0
    /\ last.arg.checkedInBy = Str("Alice")
    /\ Get(volunteers[last.id], "checkInTime") = Date(last.start)

\* C3: a check-in of an id that is not in the store returns undefined, answers
\* 404 and changes no volunteer, event or user.
C3_CheckInAbsentIsNotFound ==
    [][ (/\ last'.op = "POST check-in"
         /\ CheckInBodyValid(last'.arg)
         /\ last'.id \notin DOMAIN volunteers)
        => (/\ last'.result = Undefined
            /\ last'.status = 404
            /\ volunteers' = volunteers
            /\ events' = events
            /\ users' = users) ]_vars

C3_Witness ==
    /\ last.op = "POST check-in"
    /\ last.status = 404
    /\ last.id \notin DOMAIN volunteers

\* C4: createVolunteer without checkedIn, checkInTime and checkedInBy stores and
\* returns a row with checkedIn = false and the other two null, in both
\* storages.
C4_CreateDefaults ==
    (/\ last.op = "createVolunteer"
     /\ {"checkedIn", "checkInTime", "checkedInBy"} \cap DOMAIN last.arg = {})
    => /\ volunteers[last.id] = last.result
       /\ Get(last.result, "checkedIn") = Bool(FALSE)
       /\ IsNullish(Get(last.result, "checkInTime"))
       /\ IsNullish(Get(last.result, "checkedInBy"))

\* C5: for every event id, getEventStats gives total = the volunteers of the
\* event, checkedIn = those of them with checkedIn true, pending = total -
\* checkedIn >= 0, and 0/0/0 for an event without volunteers.
C5_EventStats ==
    \A e \in EventIds :
        LET stats == getEventStats(volunteers, e)
            ofEvent == {id \in DOMAIN volunteers : Get(volunteers[id], "eventId") = Num(e)}
            present == {id \in ofEvent : Get(volunteers[id], "checkedIn") = Bool(TRUE)}
            notPresent == {id \in ofEvent : Get(volunteers[id], "checkedIn") # Bool(TRUE)}
        IN  /\ stats.total = Cardinality(ofEvent)
            /\ stats.checkedIn = Cardinality(present)
            /\ stats.pending = Cardinality(notPresent)
            /\ stats.pending = stats.total - stats.checkedIn
            /\ stats.pending >= 0
            /\ ofEvent = {} => stats = [total |-> 0, checkedIn |-> 0, pending |-> 0]

\* an event without volunteers exists next to an event that has volunteers
\* checked in, volunteers pending and one created without a checkedIn value
C5_Witness ==
    /\ \E e \in DOMAIN events : getEventStats(volunteers, e).total = 0
    /\ \E e \in DOMAIN events :
          /\ getEventStats(volunteers, e).checkedIn > 0
          /\ getEventStats(volunteers, e).pending > 0
    /\ \E id \in DOMAIN volunteers : Get(volunteers[id], "checkedIn") = Undefined

\* C14: GET /api/events returns one entry per stored event, the event itself
\* with a volunteerCount, and the count is the number of stored volunteers whose
\* eventId is the id of the event, which is getEventStats(id).total.
C14_EventsWithCounts ==
    [][ (last' # last /\ last'.op = "GET events")
        => LET entries == last'.result.items
           IN  /\ last'.status = 200
               /\ Len(entries) = Cardinality(DOMAIN events')
               /\ {entries[i].id.n : i \in 1 .. Len(entries)} = DOMAIN events'
               /\ \A i \in 1 .. Len(entries) :
                     LET e == entries[i].id.n
                         ofEvent == {v \in DOMAIN volunteers' :
                                       Get(volunteers'[v], "eventId") = Num(e)}
                     IN  /\ entries[i].volunteerCount = Num(Cardinality(ofEvent))
                         /\ entries[i].volunteerCount
                              = Num(getEventStats(volunteers', e).total)
                         /\ \A c \in DOMAIN events'[e] : entries[i][c] = events'[e][c]
      ]_vars

\* the list has a new event without volunteers and an event that got one more
C14_Witness ==
    /\ last.op = "GET events"
    /\ Len(last.result.items) = DemoEvents + 1
    /\ \E i \in 1 .. Len(last.result.items) :
          last.result.items[i].volunteerCount = Num(0)
    /\ \E i \in 1 .. Len(last.result.items) :
          last.result.items[i].volunteerCount = Num(DemoVolunteers + 1)

----------------------------------------------------------------------------
(* Claims about shifts, under SpecShifts *)

\* the calendar day (UTC) of an instant
DayOf(d) == d.ms \div TicksPerDay

\* C9: getShiftsByDate(eventId, d) returns exactly the shifts of that event
\* whose shiftDate is on the calendar day of d: none of another event, none of
\* another day, none missing, whatever the time of day of d.
C9_ShiftsByDateExact ==
    (last.op = "GET shifts by date" /\ last.status = 200)
    => LET d == NewDate(last.arg)
           expected == {id \in DOMAIN shifts :
                          /\ shifts[id].eventId = Num(last.id)
                          /\ shifts[id].shiftDate = DateString(DayOf(d))}
       IN  /\ {last.result[i].id.n : i \in 1 .. Len(last.result)} = expected
           /\ Len(last.result) = Cardinality(expected)
           /\ \A i \in 1 .. Len(last.result) :
                  last.result[i] = shifts[last.result[i].id.n]

\* a query at noon finds a shift, while the event has a shift on another day
\* and another event has a shift on the same day
C9_Witness ==
    /\ last.op = "GET shifts by date"
    /\ last.status = 200
    /\ last.arg = IsoString(1)
    /\ Len(last.result) > 0
    /\ \E id \in DOMAIN shifts :
          /\ shifts[id].eventId = Num(last.id)
          /\ shifts[id].shiftDate # DateString(0)
    /\ \E id \in DOMAIN shifts :
          /\ shifts[id].eventId # Num(last.id)
          /\ shifts[id].shiftDate = DateString(0)

\* the row `old` with the fields of `updates` written over it
Overwritten(old, updates, columns) ==
    \* compared column by column, a missing property reading as undefined
    [c \in columns |-> IF c \in DOMAIN updates THEN updates[c] ELSE Get(old, c)]

AsRow(row, columns) == [c \in columns |-> Get(row, c)]

\* C10: updateVolunteer and updateShift never create a row: for an absent id
\* they return not-found and change nothing, for a present id the stored row
\* is the old row with exactly the supplied fields overwritten, under the same
\* id, and every other row is as before.
C10_UpdateNeverCreates ==
    [][ /\ last'.op = "updateVolunteer" =>
            /\ DOMAIN volunteers' = DOMAIN volunteers
            /\ \A i \in DOMAIN volunteers \ {last'.id} : volunteers'[i] = volunteers[i]
            /\ shifts' = shifts
            /\ IF last'.id \notin DOMAIN volunteers
               THEN last'.result = Undefined /\ volunteers' = volunteers
               ELSE /\ AsRow(volunteers'[last'.id], VolunteerColumns)
                         = Overwritten(volunteers[last'.id], last'.arg, VolunteerColumns)
                    /\ Get(volunteers'[last'.id], "id") = Num(last'.id)
        /\ (last'.op = "PUT shift" /\ ShiftBodyValid(last'.arg, TRUE)) =>
            /\ DOMAIN shifts' = DOMAIN shifts
            /\ \A i \in DOMAIN shifts \ {last'.id} : shifts'[i] = shifts[i]
            /\ volunteers' = volunteers
            /\ IF last'.id \notin DOMAIN shifts
               THEN last'.result = Undefined /\ last'.status = 404 /\ shifts' = shifts
               ELSE /\ shifts'[last'.id]
                         = Overwritten(shifts[last'.id], ShiftValues(ShiftData(last'.arg)),
                                       ShiftColumns)
                    /\ shifts'[last'.id].id = Num(last'.id)
      ]_vars

\* a shift whose date was changed before has its title and capacity changed,
\* next to a volunteer that was updated
C10_Witness ==
    /\ last.op = "PUT shift"
    /\ last.status = 200
    /\ shifts[last.id].title = Str("Late")
    /\ shifts[last.id].shiftDate = DateString(1)
    /\ shifts[last.id].eventId = Num(2)
    /\ \E id \in DOMAIN volunteers : Get(volunteers[id], "team") = Str("West Area")
    /\ \E id \in ShiftIds : id \notin DOMAIN shifts

----------------------------------------------------------------------------
(* Claims about roles and assignments, under SpecRoles *)

RowsOfRole(table, roleId) == {i \in DOMAIN table : table[i].roleId = Num(roleId)}

\* C6: assignRoleToShift is idempotent: after a call there is exactly one row
\* of the pair, which the call returns, and a second call with the same pair
\* right after the first changes nothing and returns the row of the first.
C6_AssignIdempotent ==
    [][ (/\ pc = Idle /\ pc' = Idle
         /\ last'.op = "POST shift-roles"
         /\ last'.status = 201)
        => LET pair == RowsOfPair(shiftRoles', last'.arg.shiftId, last'.arg.roleId)
           IN  /\ Cardinality(pair) = 1
               /\ \A i \in pair : last'.result = shiftRoles'[i]
               /\ (last.op = "POST shift-roles" /\ last.arg = last'.arg)
                  => (last'.result = last.result /\ shiftRoles' = shiftRoles) ]_vars

\* an assignment returned a row that is older than the newest row: the pair
\* was assigned already
C6_Witness ==
    /\ last.op = "POST shift-roles"
    /\ last.status = 201
    /\ last.id + 1 < seq.shiftRoles
    /\ last.id \in DOMAIN shiftRoles

\* C7: the store holds at most one shift_roles row for any (shiftId, roleId),
\* whatever assignments, removals, role deletions and shift deletions happened.
C7_PairUnique ==
    \A i, j \in DOMAIN shiftRoles :
        (/\ shiftRoles[i].shiftId = shiftRoles[j].shiftId
         /\ shiftRoles[i].roleId = shiftRoles[j].roleId) => i = j

\* a pair is assigned for the second time, after its first row, a role and a
\* shift were deleted
C7_Witness ==
    /\ pc = Idle
    /\ 1 \notin DOMAIN shiftRoles /\ 2 \in DOMAIN shiftRoles
    /\ 1 \notin DOMAIN shifts /\ seq.shifts > 1
    /\ 1 \notin DOMAIN roles /\ seq.roles > 1
    /\ last.op = "POST shift-roles"
    /\ last.status = 201

\* C8: deleteRole removes the shift_roles rows of the role before the role;
\* when it returns no row references the role, getShiftRoles leaves the role
\* out for every shift, and the result is true exactly when the role row was
\* removed.
C8_DeleteRoleCascades ==
    [][ /\ \A r \in DOMAIN roles \ DOMAIN roles' : RowsOfRole(shiftRoles, r) = {}
        /\ (pc.at = "deleteRole: role" /\ pc' = Idle)
           => /\ last'.op = "deleteRole"
              /\ last'.id = pc.id
              /\ last'.result = Bool(pc.id \in DOMAIN roles /\ pc.id \notin DOMAIN roles')
              /\ pc.id \notin DOMAIN roles'
              /\ RowsOfRole(shiftRoles', pc.id) = {}
              /\ \A sh \in ShiftIds :
                    LET found == getShiftRoles(shiftRoles', roles', sh)
                    IN  \A i \in 1 .. Len(found) : found[i].role.id # Num(pc.id)
      ]_vars

\* a role that two shifts were assigned to is deleted through the route
C8_Witness ==
    /\ last.op = "deleteRole"
    /\ last.status = 204
    /\ last.result = Bool(TRUE)
    /\ seq.shiftRoles = 3
    /\ shiftRoles = EmptyTable

\* C11: deleteShift(id) returns true exactly when a shift with that id existed
\* right before the call; afterwards no shift has that id, every other shift is
\* as before, and the same deleteShift(id) repeated at once returns false.
C11_DeleteShiftReportsRemoval ==
    [][ (last'.op = "DELETE shift" /\ last' # last) =>
            /\ last'.result = Bool(last'.id \in DOMAIN shifts)
            /\ last'.status = (IF last'.id \in DOMAIN shifts THEN 204 ELSE 404)
            /\ last'.id \notin DOMAIN shifts'
            /\ DOMAIN shifts' = DOMAIN shifts \ {last'.id}
            /\ \A i \in DOMAIN shifts' : shifts'[i] = shifts[i]
            /\ (last.op = "DELETE shift" /\ last.id = last'.id)
               => last'.result = Bool(FALSE)
      ]_vars

\* a shift was deleted next to other shifts, and deleting it again found nothing
C11_Witness ==
    /\ last.op = "DELETE shift"
    /\ last.result = Bool(FALSE)
    /\ last.id \notin DOMAIN shifts
    /\ seq.shifts > last.id
    /\ Cardinality(DOMAIN shifts) >= 2

----------------------------------------------------------------------------
(* Claims about the routes, under SpecApi *)

Tables == <<users, events, volunteers, shifts, roles, shiftRoles>>

MutationOps ==
    {"POST events", "POST shifts", "PUT shift", "POST roles", "PATCH role",
     "POST shift-roles", "POST check-in"}

\* insertRoleSchema.partial(), the schema of a role update
RoleUpdateValid(body) ==
    /\ IsOptional(body, "eventId", "number")
    /\ IsOptional(body, "name", "string")
    /\ IsOptional(body, "description", "string")

\* does the body pass the schema of the entity the endpoint writes
BodyValid(op, body) ==
    CASE op = "POST events"      -> EventBodyValid(body)
      [] op = "POST shifts"      -> ShiftBodyValid(body, FALSE)
      [] op = "PUT shift"        -> ShiftBodyValid(body, TRUE)
      [] op = "POST roles"       -> RoleBodyValid(body)
      [] op = "PATCH role"       -> RoleUpdateValid(body)
      [] op = "POST shift-roles" -> ShiftRoleBodyValid(body)
      [] op = "POST check-in"    -> CheckInBodyValid(body)
      [] OTHER                   -> TRUE

\* C12: every mutation endpoint answers a body that fails the entity's schema
\* with 400 and leaves every table as it was.
C12_InvalidBodyIs400 ==
    [][ (/\ last' # last
         /\ last'.op \in MutationOps
         /\ ~BodyValid(last'.op, last'.arg))
        => (last'.status = 400 /\ Tables' = Tables) ]_vars

SingleEntityOps ==
    {"GET event", "GET volunteer", "POST check-in", "GET shift", "PUT shift",
     "DELETE shift", "GET role", "PATCH role", "DELETE role", "DELETE shift-role"}

\* is the entity a request addresses missing from the store
Absent(op, id, arg) ==
    CASE op = "GET event"                              -> id \notin DOMAIN events
      [] op \in {"GET volunteer", "POST check-in"}     -> id \notin DOMAIN volunteers
      [] op \in {"GET shift", "PUT shift", "DELETE shift"} -> id \notin DOMAIN shifts
      [] op \in {"GET role", "PATCH role", "DELETE role"}  -> id \notin DOMAIN roles
      [] op = "DELETE shift-role" -> RowsOfPair(shiftRoles, Num(id), arg) = {}

\* C13: an endpoint that addresses one entity by id answers 404 exactly when
\* the storage layer (asked after the body passed validation, where there is
\* one) finds no such entity, and then every table is as it was.
C13_NotFoundIs404 ==
    [][ /\ (last' # last /\ last'.op \in SingleEntityOps)
           => /\ last'.status = 404
                 <=> (/\ last'.op \in {"POST check-in", "PUT shift"}
                           => BodyValid(last'.op, last'.arg)
                      /\ Absent(last'.op, last'.id, last'.arg))
              /\ last'.status = 404 => Tables' = Tables
        /\ (last' # last /\ last'.op = "deleteRole" /\ pc.viaRoute)
           => (last'.status # 404 /\ pc.id \in DOMAIN roles)
      ]_vars

\* a role that was created and deleted is patched, next to a shift, an
\* assignment row left behind and a new event
C13_Witness ==
    /\ last.op = "PATCH role"
    /\ last.status = 404
    /\ seq.roles > 1
    /\ DOMAIN shifts # {}
    /\ seq.shiftRoles > 1
    /\ seq.events > DemoEvents + 1

----------------------------------------------------------------------------
(* Claims about who checked a volunteer in, under SpecCheckIn *)

\* the display name of a user: first and last name when both are set, else the
\* username, else "Admin"
DisplayName(user) ==
    LET IsSet(f) == Get(user, f).kind = "string" /\ Get(user, f) # Str("")
    IN  IF IsSet("firstName") /\ IsSet("lastName")
        THEN Str(user.firstName.s \o " " \o user.lastName.s)
        ELSE IF IsSet("username") THEN user.username
        ELSE Str("Admin")

\* C15: the recorded checkedInBy has one source per deployment.  Without
\* authentication it is the checkedInBy string of the body, and a body without
\* such a string gets 400 and checks nobody in.  With authentication it is the
\* display name of the session user whatever the body says, and an unknown
\* session user gets 401 and checks nobody in.
C15_CheckedInBySource ==
    [][ /\ (last' # last /\ last'.op = "POST check-in")
           => /\ variant = "unauthenticated"
              /\ IF Get(last'.arg, "checkedInBy").kind # "string"
                 THEN last'.status = 400 /\ volunteers' = volunteers
                 ELSE last'.id \in DOMAIN volunteers
                      => volunteers'[last'.id].checkedInBy = last'.arg.checkedInBy
        /\ (last' # last /\ last'.op = "POST check-in (session)")
           => /\ variant = "authenticated"
              /\ LET known == {i \in DOMAIN users :
                                 Get(users[i], "username") = last'.arg.sub}
                 IN  IF known = {}
                     THEN last'.status = 401 /\ volunteers' = volunteers
                     ELSE last'.id \in DOMAIN volunteers
                          => \E i \in known :
                                volunteers'[last'.id].checkedInBy = DisplayName(users[i])
      ]_vars

\* a session user with both names checks a volunteer in while the body names
\* somebody else, next to a user without a name
C15_Witness ==
    /\ last.op = "POST check-in (session)"
    /\ last.status = 200
    /\ last.arg.body = [checkedInBy |-> Str("Mallory")]
    /\ volunteers[last.id].checkedInBy = Str("Alice Smith")
    /\ \E i \in DOMAIN users : users[i].username = Str("")

----------------------------------------------------------------------------
(* Claims about the client, under SpecAssign *)

\* the roles the editor shows as checked for a shift
LocalRoles(c, shiftId) ==
    IF shiftId \in DOMAIN c.shiftRoleAssignments
    THEN c.shiftRoleAssignments[shiftId] ELSE {}

\* C16: when handleSaveAssignments ends with the success toast (and the move to
\* the confirmation page), the roles the server has for every shift of the
\* event are the roles checked in the editor for that shift.
C16_SaveMatchesEditor ==
    [][ (client.page = "AssignRoles" /\ client'.page = "EventConfirmation")
        => \A sh \in Ids(getShifts(shifts', client.eventId)) :
              {r \in DOMAIN roles' :
                  RowsOfPair(shiftRoles', Num(sh), Num(r)) # {}}
              = LocalRoles(client, sh) ]_vars

----------------------------------------------------------------------------
(* Claim about the two stores, under SpecTwin *)

\* a value with what the claim sets aside taken out: the generated id of a
\* row and every timestamp; null and undefined (or a missing key) are not told
\* apart either
RECURSIVE Blur(_)
Blur(v) ==
    IF "kind" \in DOMAIN v
    THEN IF v.kind = "date" THEN [kind |-> "date"]
         ELSE IF v.kind = "array" THEN Arr([i \in DOMAIN v.items |-> Blur(v.items[i])])
         ELSE IF IsNullish(v) THEN Null
         ELSE v
    ELSE [c \in (VolunteerColumns \cup DOMAIN v) \ {"id"} |->
             LET x == Get(v, c)
             IN  IF IsNullish(x) THEN Null ELSE Blur(x)]

\* C17: whatever sequence of createEvent, createVolunteer, updateVolunteer,
\* checkInVolunteer, getVolunteer(s), getEvent(s) and getEventStats calls the
\* two stores are given with the same arguments, each call returns the same
\* result from MemStorage as from DatabaseStorage, up to generated ids and
\* timestamps.
C17_StoresInterchangeable ==
    last.op # "none" => Blur(last.result) = Blur(mirror.result)

----------------------------------------------------------------------------
(* Claim about the event-creation flow, under SpecFlow *)

\* the place of a page in the flow; 0 for a page outside it
Stage(page) ==
    CASE page = "CreateEvent" -> 1
      [] page = "CreateShifts" -> 2
      [] page = "CreateRoles" -> 3
      [] page = "AssignRoles" -> 4
      [] page = "EventConfirmation" -> 5
      [] OTHER -> 0

----------------------------------------------------------------------------
(* Claim about the shift list, under SpecShiftList *)

\* minutes since midnight of a label "h:00 AM" / "h:00 PM"
Minutes(label) ==
    LET colon == CHOOSE i \in 1 .. Len(label) : SubSeq(label, i, i) = ":"
        digits == "0123456789"
        Digit(ch) == (CHOOSE i \in 1 .. 10 : SubSeq(digits, i, i) = ch) - 1
        hour == IF colon = 2 THEN Digit(SubSeq(label, 1, 1))
                ELSE 10 * Digit(SubSeq(label, 1, 1)) + Digit(SubSeq(label, 2, 2))
        pm == SubSeq(label, Len(label) - 1, Len(label)) = "PM"
    IN  60 * ((hour % 12) + IF pm THEN 12 ELSE 0)

\* C19: in the answer of GET /api/events/:eventId/shifts, shifts of the same
\* date whose start times are labels of the time picker come in the
\* chronological order of their start times.
C19_ListIsChronological ==
    last.op = "GET shifts" =>
        \A i, j \in 1 .. Len(last.result.items) :
            LET a == last.result.items[i]
                b == last.result.items[j]
            IN  (i < j /\ a.shiftDate = b.shiftDate)
                => Minutes(a.startTime.s) <= Minutes(b.startTime.s)

----------------------------------------------------------------------------
(* Claim about the dates of an event, under SpecDates *)

\* the calendar days of a list of Dates, as the page shows them
DaysOf(dates, zone) ==
    { IF IsInvalidDate(dates[i]) THEN -1 ELSE LocalDay(dates[i], zone) : i \in DOMAIN dates }

\* C20: for every non-empty selection D of dates, what CreateShifts reads back
\* from the payload of convertFormValuesToApiData is exactly D, both when it
\* parses rawDates (split on '|') and when it parses the display text by the
\* fallback rules (a range with "to", a list with ",", a single date
\* otherwise).
C20_DatesReadBack ==
    (client.page = "CreateShifts" /\ "event" \in DOMAIN client)
    => DaysOf(client.selectedDates, client.zone)
       = DaysOf(client.data.selectedDates, client.zone)

----------------------------------------------------------------------------
(* Claim about start-up, under SpecSeed *)

\* the rows a step has added to a table
Added(before, after) == {after[id] : id \in DOMAIN after \ DOMAIN before}

----------------------------------------------------------------------------
(* Claim about the per-date shift wizard, under SpecWizard *)

\* the calendar day an ISO text "yyyy-MM-dd" names
DayOfIso(text) ==
    LET part == Split(text, "-")
    IN  DayNumber(ToNumber(part[1]), ToNumber(part[2]), ToNumber(part[3]))

RECURSIVE Ascending(_)
Ascending(days) ==
    IF days = {} THEN << >>
    ELSE LET d == CHOOSE x \in days : \A y \in days : x <= y
         IN  <<d>> \o Ascending(days \ {d})

\* the dates of an event in ascending order: those its rawDates list, or the
\* one date its date text names
DaysOfEvent(event) ==
    IF Truthy(Get(event, "rawDates"))
    THEN LET raw == Split(event.rawDates.s, "|")
         IN  Ascending({DayOfIso(raw[i]) : i \in DOMAIN raw})
    ELSE <<LocalDay(ParseDate(event.date.s, 0, 0), 0)>>

\* C22: in the wizard of an event with N >= 1 dates, a submit at dateIndex i
\* that creates shifts creates them for the i-th date of the event only, and
\* then shows dateIndex i + 1 when i < N - 1 and create-roles when i = N - 1;
\* a submit that failed leaves the page and its dateIndex as they were.
C22_WizardWalksTheDates ==
    [][ (client.page = "CreateShiftsForDate" /\ client' # client /\ shifts' # shifts)
        => LET days == DaysOfEvent(getEvent(events, client.eventId))
               i == client.dateIndex
           IN  /\ i < Len(days)
               /\ \A id \in DOMAIN shifts' \ DOMAIN shifts :
                     shifts'[id].shiftDate = DateString(days[i + 1])
               /\ IF i < Len(days) - 1
                  THEN client'.page = "CreateShiftsForDate" /\ client'.dateIndex = i + 1
                  ELSE client'.page = "CreateRoles" ]_vars

----------------------------------------------------------------------------
(* Claim about deleting a shift that has roles assigned, under SpecRoles *)

\* C23: deleteShift(id) removes the shift only: every ShiftRole row, those of
\* the deleted shift included, is the same after the call as before it.
C23_DeleteShiftKeepsAssignments ==
    [][ (last' # last /\ last'.op = "DELETE shift") => shiftRoles' = shiftRoles ]_vars

\* a shift with a role assigned was deleted, and the assignment is still there
C23_Witness ==
    /\ last.op = "DELETE shift"
    /\ last.status = 204
    /\ last.id \notin DOMAIN shifts
    /\ \E i \in DOMAIN shiftRoles : shiftRoles[i].shiftId = Num(last.id)

----------------------------------------------------------------------------
(* Claims about the assignment editor, under SpecEditor *)

\* the boxes of the editor that are ticked
Ticked(c) ==
    {<<sh, r>> \in c.shifts \X c.roles : isRoleAssignedToShift(c.shiftRoleAssignments, sh, r)}

\* C24: a click on the checkbox of (shiftId, roleId) ticks the box when it was
\* clear and clears it when it was ticked; every other box, every table of
\* the server and the requests under way stay as they were; and a second
\* click on the same box leaves the boxes as they were before the first.
C24_ToggleIsLocal ==
    [][ ( /\ client.page = "AssignRoles" /\ "toggles" \in DOMAIN client
          /\ client'.page = "AssignRoles" /\ "toggles" \in DOMAIN client'
          /\ client'.toggles = client.toggles + 1 )
        => /\ \E pair \in client.shifts \X client.roles :
                 Ticked(client') = IF pair \in Ticked(client)
                                   THEN Ticked(client) \ {pair}
                                   ELSE Ticked(client) \cup {pair}
           /\ \A sh \in client.shifts, r \in client.roles :
                 LET once == toggleRoleAssignment(client.shiftRoleAssignments, sh, r)
                     twice == toggleRoleAssignment(once, sh, r)
                 IN  Ticked([client EXCEPT !.shiftRoleAssignments = twice]) = Ticked(client)
           /\ client'.run = client.run /\ client'.fetch = client.fetch
           /\ UNCHANGED <<users, events, volunteers, shiftVars, seq, last>> ]_vars

\* a box of a shift the Map had no entry for was ticked and cleared again,
\* next to an assignment on the server
C24_Witness ==
    /\ client.page = "AssignRoles" /\ "toggles" \in DOMAIN client
    /\ client.toggles = 2
    /\ client.fetch.left # {}
    /\ \E sh \in DOMAIN client.shiftRoleAssignments : client.shiftRoleAssignments[sh] = {}
    /\ shiftRoles # EmptyTable

\* C28: a save of the editor without a click on a checkbox, in which no request
\* failed, leaves the server with the (shift, role) pairs it had when the editor
\* was opened, also when a fetch at mount failed or was still running at the
\* press of Save.
C28_UntouchedSaveKeepsAssignments ==
    [][ ( /\ client.page = "AssignRoles" /\ "toggles" \in DOMAIN client
          /\ client.toggles = 0
          /\ client.run # Resting
          /\ client'.page = "EventConfirmation"
          /\ ~client'.caught )
        => ServerPairs' = client.asOpened ]_vars

\* C29: a box ticked while fetchExistingAssignments was running, and not ticked
\* by what was fetched, is still ticked when the fetch completes.
C29_ToggleSurvivesFetch ==
    [][ ( /\ client.page = "AssignRoles" /\ "fetch" \in DOMAIN client
          /\ client.fetch.left # {}
          /\ client'.page = "AssignRoles" /\ "fetch" \in DOMAIN client'
          /\ client'.fetch.left = {} )
        => Ticked(client) \subseteq Ticked(client') ]_vars

----------------------------------------------------------------------------
(* Claims about requests handled at the same time, under SpecRace *)

\* C25: whenever no request is under way, also after assignRoleToShift
\* requests for one (shiftId, roleId) whose lookups and inserts interleaved,
\* the pair has at most one shift_roles row.
C25_PairUniqueUnderRace ==
    pc = Idle =>
        \A i, j \in DOMAIN shiftRoles :
            (shiftRoles[i].shiftId = shiftRoles[j].shiftId
             /\ shiftRoles[i].roleId = shiftRoles[j].roleId) => i = j

\* C26: whenever no request is under way, also after a DELETE /api/roles/:id
\* whose statements interleaved with a POST /api/shift-roles for that role,
\* every shift_roles row names a role that exists.
C26_NoAssignmentOfDeletedRole ==
    pc = Idle => \A i \in DOMAIN shiftRoles : shiftRoles[i].roleId.n \in DOMAIN roles

----------------------------------------------------------------------------
(* Claim about check-in over every writing route of the API, under SpecWrites *)

\* C27: no request takes a volunteer's checkedIn from true to anything else,
\* and for every event the checkedIn of getEventStats never goes down and its
\* pending never goes up (the statistics are read from the volunteers, so
\* only a request that changes a volunteer can change them).
C27_CheckInIsForGood ==
    [][ volunteers' # volunteers
        => /\ \A id \in DOMAIN volunteers :
                 Get(volunteers[id], "checkedIn") = Bool(TRUE)
                 => id \in DOMAIN volunteers' /\ Get(volunteers'[id], "checkedIn") = Bool(TRUE)
           /\ \A e \in DOMAIN events :
                 LET before == getEventStats(volunteers, e)
                     after == getEventStats(volunteers', e)
                 IN  after.checkedIn >= before.checkedIn /\ after.pending <= before.pending
      ]_vars

\* a volunteer is checked in, was checked in a second time by someone else,
\* and other requests have been handled since
C27_Witness ==
    /\ last.op \notin {"POST check-in", "none"}
    /\ \E id \in DOMAIN volunteers :
          /\ Get(volunteers[id], "checkedIn") = Bool(TRUE)
          /\ getEventStats(volunteers, volunteers[id].eventId.n).checkedIn >= 1
    /\ seq.events > DemoEvents + 1

----------------------------------------------------------------------------
(* Claims about check-ins handled at the same time, under SpecCheckInRace *)

CheckIns == {k \in DOMAIN Inflight : Inflight[k].op = "checkInVolunteer"}

\* checkedInBy and checkInTime of every volunteer are as at start-up or those
\* of one check-in call, and a volunteer with a returned check-in is checked in
CheckInIsWhole ==
    \A id \in DOMAIN volunteers :
        LET v == volunteers[id]
            seeded == SeedVolunteers(impl, EmptyTable, 1, 0)[id]
        IN  /\ \/ /\ Get(v, "checkInTime") = Get(seeded, "checkInTime")
                  /\ Get(v, "checkedInBy") = Get(seeded, "checkedInBy")
               \/ \E k \in CheckIns :
                     /\ Inflight[k].id = id
                     /\ Get(v, "checkedInBy") = Inflight[k].checkedInBy
                     /\ Get(v, "checkInTime") = Date(Inflight[k].t)
            /\ (\E k \in CheckIns : Inflight[k].id = id /\ Inflight[k].at = "done")
               => Get(v, "checkedIn") = Bool(TRUE)

============================================================================
